---- MODULE Spec2Model ----
(***************************************************************************)
(* Model of the harmonization pipeline of forge-agent-demo:                *)
(*   ForgeAgentHarmonizer.process_csv        (src/core/harmonizer_v2.py)   *)
(*   SchemaMappingAgent._map_column_to_schema,                             *)
(*   SchemaMappingAgent._ai_assisted_mapping (src/agents/schema_agent.py)  *)
(*   DataValidationAgent.validate_and_enhance_data                         *)
(*                                        (src/agents/validation_agent.py) *)
(*                                                                         *)
(* Confidences are integers in hundredths (0.6 is 60, 1.0 is 100).         *)
(* A Python str is a record [type |-> "str", parts |-> <<fragments>>]:     *)
(* the empty string has no fragment, an f-string has one fragment per      *)
(* literal piece and per interpolated value.  None is its own record.      *)
(***************************************************************************)
EXTENDS Integers, Sequences, FiniteSets, TLC

(* ---------------------------- bounds ---------------------------------- *)
\* largest number of columns of the input file
MaxCols == 3
\* largest number of data rows of the input file
MaxRows == 2

(* ------------------------ Python values -------------------------------- *)
None == [type |-> "NoneType", parts |-> <<>>]
Str(s) == [type |-> "str", parts |-> IF s = "" THEN <<>> ELSE <<s>>]
FStr(parts) == [type |-> "str", parts |-> parts]
\* the key is not in the dict (dict.get then returns its default)
Absent == [type |-> "absent", parts |-> <<>>]

\* a str with at least one character
NonEmptyStr(v) == v.type = "str" /\ v.parts # <<>>
\* the text contains the column name as an interpolated value
NamesColumn(v, col) == v.type = "str" /\ \E k \in DOMAIN v.parts : v.parts[k] = col

RECURSIVE SeqToSet(_)
SeqToSet(s) == IF s = <<>> THEN {} ELSE {Head(s)} \cup SeqToSet(Tail(s))

RECURSIVE SelectSeqBy(_, _)
\* [x for x in s if x.status == st]
SelectSeqBy(s, st) ==
    IF s = <<>> THEN <<>>
    ELSE IF Head(s).status = st THEN <<Head(s)>> \o SelectSeqBy(Tail(s), st)
         ELSE SelectSeqBy(Tail(s), st)

(* --------------------------- schemas ----------------------------------- *)
\* the target schema of the pipeline, in its field order
target_schema ==
    <<"customer_name", "product_name", "quantity", "unit_price",
      "sale_date", "sales_rep", "country">>

\* the field names the classifier's answer is validated against
valid_fields ==
    <<"vehicle_make", "vehicle_model", "price", "fuel_type", "year",
      "dealer_name", "country", "customer_name", "customer_email",
      "customer_phone", "lead_source">>

\* acceptance threshold of _map_column_to_schema: confidence > 0.6
AcceptThreshold == 60

(* ---------------------- the classifier's answers ----------------------- *)
\* target fields the classifier answers with in this model: two that are in
\* both schemas, one that is only in valid_fields, one that is only in
\* target_schema (and so is an invalid answer)
TargetChoices == {"customer_name", "country", "price", "unit_price"}

\* the "confidence" value of an answer: a JSON number, a JSON string holding
\* a number, or something float() rejects (null, a word)
Num(v) == [type |-> "number", val |-> v]
NumStr(v) == [type |-> "numstr", val |-> v]
NotANumber == [type |-> "text", val |-> 0]
ConfChoices ==
    {Num(0 - 20), Num(60), Num(90), Num(150),
     NumStr(90), NumStr(150), NotANumber}

ReasoningChoices == {Absent, None, Str(""), Str("semantic match")}

\* what the backend call of one column produces
ClassifierAnswers ==
    [kind : {"backend_error", "bad_json", "missing_keys"},
     target_field : {"customer_name"}, confidence : {Num(0)}, reasoning : {Absent}]
    \cup
    [kind : {"json"}, target_field : TargetChoices,
     confidence : ConfChoices, reasoning : ReasoningChoices]

NoAnswer ==
    [kind |-> "not_called", target_field |-> "customer_name",
     confidence |-> Num(0), reasoning |-> Absent]

(* --------------------- SchemaMappingAgent ------------------------------ *)
SchemaMapping(src, tgt, conf, transf, st, reason) ==
    [source_column |-> src, target_field |-> tgt, mapping_confidence |-> conf,
     transformation_needed |-> transf, status |-> st, rejection_reason |-> reason]

_determine_transformation(target_field) ==
    CASE target_field = "year" -> "convert_to_integer"
      [] target_field = "price" -> "convert_to_decimal"
      [] target_field = "fuel_type" -> "normalize_fuel_type"
      [] target_field = "country" -> "infer_country"
      [] target_field = "customer_email" -> "validate_email"
      [] target_field = "customer_phone" -> "normalize_phone"
      [] target_field = "lead_source" -> "validate_lead_source"
      [] OTHER -> "none"

\* a clamp that leaves the reported value as it is
ClampNothing(c) == c

\* confidence = max(0, min(1, confidence))
Clamp(c) == IF c < 0 THEN 0 ELSE IF c > 100 THEN 100 ELSE c

\* a field check that lets every field name through
AnyField(field) == TRUE

\* mapping_result["target_field"] in valid_fields
ValidField(field) == field \in SeqToSet(valid_fields)

\* an acceptance test that also accepts the threshold itself
AcceptedFromThreshold(confidence) == confidence >= AcceptThreshold

\* ai_mapping['confidence'] > 0.6
Accepted(confidence) == confidence > AcceptThreshold

\* The result of _ai_assisted_mapping: outcome "dict" (the parsed answer),
\* "none" (return None) or "raised" (an exception leaves the function).
\* The handlers name json.JSONDecodeError, and json is a local name bound by
\* the import inside the try block: when the backend call raises before the
\* import, evaluating the first except clause raises UnboundLocalError, which
\* no handler of this function catches.
_ai_assisted_mapping(ans) ==
    LET ret(o, c) == [outcome |-> o, target_field |-> ans.target_field,
                      confidence |-> c, reasoning |-> ans.reasoning]
    IN  CASE ans.kind = "backend_error" -> ret("raised", Num(0))
          [] ans.kind = "bad_json" -> ret("none", Num(0))
          [] ans.kind = "missing_keys" -> ret("none", Num(0))
          [] OTHER ->
               IF ~ValidField(ans.target_field)
               THEN ret("none", Num(0))
               ELSE IF ans.confidence.type = "text"
               THEN ret("none", Num(0))
               ELSE IF ans.confidence.val < 0 \/ ans.confidence.val > 100
               THEN ret("dict", Num(Clamp(ans.confidence.val)))
               ELSE ret("dict", ans.confidence)

_map_column_to_schema(source_column, ans) ==
    LET ai_mapping == _ai_assisted_mapping(ans)
    IN  IF ai_mapping.outcome = "raised"
        THEN SchemaMapping(source_column, "unmapped", 0, "none", "rejected",
                           FStr(<<"AI mapping error: ", "UnboundLocalError">>))
        ELSE IF ai_mapping.outcome = "dict" /\ ai_mapping.confidence.type = "numstr"
        THEN \* '0.9' > 0.6 raises TypeError
             SchemaMapping(source_column, "unmapped", 0, "none", "rejected",
                           FStr(<<"AI mapping error: ", "TypeError">>))
        ELSE IF ai_mapping.outcome = "dict" /\ Accepted(ai_mapping.confidence.val)
        THEN SchemaMapping(source_column, ai_mapping.target_field,
                           ai_mapping.confidence.val,
                           _determine_transformation(ai_mapping.target_field),
                           "mapped", None)
        ELSE IF ai_mapping.outcome = "dict"
        THEN SchemaMapping(source_column, "unmapped", ai_mapping.confidence.val,
                           "none", "rejected",
                           IF ai_mapping.reasoning = Absent
                           THEN Str("Low AI confidence")
                           ELSE ai_mapping.reasoning)
        ELSE SchemaMapping(source_column, "unmapped", 0, "none", "rejected",
                           Str("AI mapping failed"))

(* ------------------------------ texts ---------------------------------- *)
\* The text of a value (str(value)) is a sequence of one-character strings.
\* T2, T3, ... build the texts of the examples.
DigitChars == <<"0", "1", "2", "3", "4", "5", "6", "7", "8", "9">>
IsDigit(c) == \E k \in DOMAIN DigitChars : DigitChars[k] = c
DigitVal(c) == (CHOOSE k \in DOMAIN DigitChars : DigitChars[k] = c) - 1
AllDigits(s) == \A k \in DOMAIN s : IsDigit(s[k])

RECURSIVE Replace(_, _, _)
\* s.replace(ch, rep) for a one-character ch
Replace(s, ch, rep) ==
    IF s = <<>> THEN <<>>
    ELSE (IF Head(s) = ch THEN rep ELSE <<Head(s)>>) \o Replace(Tail(s), ch, rep)

RECURSIVE LStrip(_)
LStrip(s) == IF s # <<>> /\ Head(s) = " " THEN LStrip(Tail(s)) ELSE s

RECURSIVE RStrip(_)
RStrip(s) ==
    IF s # <<>> /\ s[Len(s)] = " " THEN RStrip(SubSeq(s, 1, Len(s) - 1)) ELSE s

\* s.strip()
Strip(s) == RStrip(LStrip(s))

RECURSIVE TextToNat(_)
\* the number a text of digits denotes
TextToNat(s) ==
    IF s = <<>> THEN 0
    ELSE 10 * TextToNat(SubSeq(s, 1, Len(s) - 1)) + DigitVal(s[Len(s)])

RECURSIVE NatToText(_)
\* str(n) for n >= 0
NatToText(n) ==
    IF n < 10 THEN <<DigitChars[n + 1]>>
    ELSE NatToText(n \div 10) \o <<DigitChars[(n % 10) + 1]>>

\* str(n) for an int
IntToText(n) == IF n < 0 THEN <<"-">> \o NatToText(0 - n) ELSE NatToText(n)

\* n as text of at least w digits (strftime's zero padding)
RECURSIVE ZeroPad(_, _)
ZeroPad(s, w) == IF Len(s) >= w THEN s ELSE ZeroPad(<<"0">> \o s, w)

\* position of the first ch in s, 0 when there is none
FirstIndex(s, ch) ==
    IF \E k \in DOMAIN s : s[k] = ch
    THEN CHOOSE k \in DOMAIN s : s[k] = ch /\ \A j \in 1..(k - 1) : s[j] # ch
    ELSE 0

RECURSIVE Split(_, _)
\* s.split(ch): the fields between the occurrences of ch
Split(s, ch) ==
    LET k == FirstIndex(s, ch)
    IN  IF k = 0 THEN <<s>>
        ELSE <<SubSeq(s, 1, k - 1)>> \o Split(SubSeq(s, k + 1, Len(s)), ch)

RECURSIVE StripTrailingZeros(_)
StripTrailingZeros(s) ==
    IF s # <<>> /\ s[Len(s)] = "0"
    THEN StripTrailingZeros(SubSeq(s, 1, Len(s) - 1)) ELSE s

RECURSIVE StripLeadingZeros(_)
StripLeadingZeros(s) ==
    IF s # <<>> /\ Head(s) = "0" THEN StripLeadingZeros(Tail(s)) ELSE s

(* ------------------------- float() and int() --------------------------- *)
\* float(text) for texts of digits, '.', a sign and blanks around: the value
\* is kept exactly, as sign, integer part and decimals without trailing
\* zeros.  ok is FALSE where float() raises ValueError.
NoFloat == [ok |-> FALSE, neg |-> FALSE, int |-> 0, frac |-> <<>>]
ParseFloat(text) ==
    LET s == Strip(text)
        signed == s # <<>> /\ Head(s) \in {"+", "-"}
        body == IF signed THEN Tail(s) ELSE s
        fields == Split(body, ".")
        ip == fields[1]
        fp == IF Len(fields) = 2 THEN fields[2] ELSE <<>>
    IN  IF /\ Len(fields) <= 2
           /\ AllDigits(ip) /\ AllDigits(fp)
           /\ (ip # <<>> \/ fp # <<>>)
        THEN [ok |-> TRUE, neg |-> signed /\ Head(s) = "-",
              int |-> TextToNat(ip), frac |-> StripTrailingZeros(fp)]
        ELSE NoFloat

\* int(x) of a float: truncation toward zero
FloatToInt(x) == IF x.neg THEN 0 - x.int ELSE x.int

\* str(x) of a float: repr gives the shortest decimal text, and switches to
\* exponent notation below 0.0001
FloatToText(x) ==
    LET sign == IF x.neg THEN <<"-">> ELSE <<>>
        sig == StripLeadingZeros(x.frac)
        zeros == Len(x.frac) - Len(sig)
    IN  IF x.int = 0 /\ sig # <<>> /\ zeros >= 4
        THEN sign \o <<Head(sig)>>
             \o (IF Len(sig) > 1 THEN <<".">> \o Tail(sig) ELSE <<>>)
             \o <<"e", "-">> \o ZeroPad(NatToText(zeros + 1), 2)
        ELSE sign \o NatToText(x.int) \o <<".">>
             \o (IF x.frac = <<>> THEN <<"0">> ELSE x.frac)

(* --------------------- DataValidationAgent: dates ---------------------- *)
\* datetime.strptime fields: %d is 3[01]|[12]\d|0[1-9]|[1-9]| [1-9],
\* %m is 1[0-2]|0[1-9]|[1-9], %Y is \d\d\d\d
DayField(s) ==
    \/ Len(s) = 2 /\ s[1] = " " /\ IsDigit(s[2]) /\ s[2] # "0"
    \/ Len(s) \in {1, 2} /\ AllDigits(s) /\ TextToNat(s) \in 1..31
MonthField(s) == Len(s) \in {1, 2} /\ AllDigits(s) /\ TextToNat(s) \in 1..12
YearField(s) == Len(s) = 4 /\ AllDigits(s)

IsLeap(y) == y % 4 = 0 /\ (y % 100 # 0 \/ y % 400 = 0)
DaysInMonth(y, m) ==
    IF m = 2 THEN (IF IsLeap(y) THEN 29 ELSE 28)
    ELSE IF m \in {4, 6, 9, 11} THEN 30 ELSE 31

\* the format strings of _parse_date, in the order they are tried: the
\* separator and the directive of each of the three fields
DatePatternsMonthFirst ==
    <<[sep |-> "-", fields |-> <<"Y", "m", "d">>],
      [sep |-> "/", fields |-> <<"m", "d", "Y">>],
      [sep |-> "/", fields |-> <<"d", "m", "Y">>],
      [sep |-> ".", fields |-> <<"d", "m", "Y">>],
      [sep |-> "-", fields |-> <<"d", "m", "Y">>]>>

DatePatterns ==
    <<[sep |-> "-", fields |-> <<"Y", "m", "d">>],
      [sep |-> "/", fields |-> <<"d", "m", "Y">>],
      [sep |-> "/", fields |-> <<"m", "d", "Y">>],
      [sep |-> ".", fields |-> <<"d", "m", "Y">>],
      [sep |-> "-", fields |-> <<"d", "m", "Y">>]>>

NoDate == [ok |-> FALSE, year |-> 0, month |-> 0, day |-> 0]

\* datetime.strptime(date_str, pattern): ok is FALSE where it raises ValueError
Strptime(date_str, pattern) ==
    LET parts == Split(date_str, pattern.sep)
        at(d) == parts[CHOOSE k \in 1..3 : pattern.fields[k] = d]
        t(s) == TextToNat(IF s # <<>> /\ Head(s) = " " THEN Tail(s) ELSE s)
    IN  IF /\ Len(parts) = 3
           /\ YearField(at("Y")) /\ MonthField(at("m")) /\ DayField(at("d"))
           /\ t(at("Y")) >= 1
           /\ t(at("d")) <= DaysInMonth(t(at("Y")), t(at("m")))
        THEN [ok |-> TRUE, year |-> t(at("Y")), month |-> t(at("m")),
              day |-> t(at("d"))]
        ELSE NoDate

\* parsed_date.strftime("%Y-%m-%d")
IsoText(d) ==
    ZeroPad(NatToText(d.year), 4) \o <<"-">> \o ZeroPad(NatToText(d.month), 2)
    \o <<"-">> \o ZeroPad(NatToText(d.day), 2)

RECURSIVE TryPatterns(_, _)
\* the loop over patterns: the first one that parses returns
TryPatterns(date_str, patterns) ==
    IF patterns = <<>> THEN date_str
    ELSE LET parsed == Strptime(date_str, Head(patterns))
         IN  IF parsed.ok THEN IsoText(parsed)
             ELSE TryPatterns(date_str, Tail(patterns))

_parse_date(date_value) == TryPatterns(Strip(date_value), DatePatterns)

(* ------------- DataValidationAgent._validate_and_transform ------------- *)
\* an outcome that records a changed value as an error
ValidationResultFlagged(field, status, original, final, action) ==
    [field |-> field,
     status |-> IF status = "fixed" THEN "error" ELSE status,
     original_value |-> original, final_value |-> final,
     action_taken |-> action]

\* ValidationResult(field=..., status=..., original_value=..., ...)
ValidationResult(field, status, original, final, action) ==
    [field |-> field, status |-> status, original_value |-> original,
     final_value |-> final, action_taken |-> action]

\* a cleaning that takes out the commas and leaves the blanks
CleanCommasOnly(value) == Replace(value, ",", <<>>)

\* str(value).replace(",", "").replace(" ", "")
CleanInteger(value) == Replace(Replace(value, ",", <<>>), " ", <<>>)

\* a cleaning that takes the comma for a thousands separator
CleanDecimalDropComma(value) == Replace(value, ",", <<>>)

\* str(value).replace(",", ".")
CleanDecimal(value) == Replace(value, ",", <<".">>)

\* value is the text str(value) of the cell
_validate_and_transform(value, target_field, transformation) ==
    CASE transformation = "convert_to_integer" ->
           LET x == ParseFloat(CleanInteger(value))
               final == IntToText(FloatToInt(x))
           IN  IF ~x.ok
               THEN ValidationResult(target_field, "fixed", value, <<"0">>,
                                     "Set to 0 (invalid number)")
               ELSE IF value # final
               THEN ValidationResult(target_field, "fixed", value, final,
                                     "Converted to integer")
               ELSE ValidationResult(target_field, "valid", value, final, "none")
      [] transformation = "convert_to_decimal" ->
           LET x == ParseFloat(CleanDecimal(value))
               final == FloatToText(x)
           IN  IF ~x.ok
               THEN ValidationResult(target_field, "fixed", value,
                                     <<"0", ".", "0">>,
                                     "Set to 0.0 (invalid decimal)")
               ELSE IF value # final
               THEN ValidationResult(target_field, "fixed", value, final,
                                     "Converted to decimal")
               ELSE ValidationResult(target_field, "valid", value, final, "none")
      [] transformation = "parse_date" ->
           LET final == _parse_date(value)
           IN  IF value # final
               THEN ValidationResult(target_field, "fixed", value, final,
                                     "Standardized date format")
               ELSE ValidationResult(target_field, "valid", value, final, "none")
      [] OTHER ->
           ValidationResult(target_field, "valid", value, Strip(value), "none")

(* ---------------------- inputs of the transforms ----------------------- *)
\* longest text over NumChars that is tried
MaxTextLen == 4

\* characters of the number texts: digits, both separators, a blank and a
\* character no number has
NumChars == {"0", "1", "2", ",", ".", " ", "x"}
NumberTexts == UNION {[1..n -> NumChars] : n \in 0..MaxTextLen}

\* date texts: three fields, two separators, blanks around or not
DateParts == {<<"2", "0", "2", "4">>, <<"2", "0", "2", "3">>, <<"2", "9">>, <<"0", "2">>, <<"1", "3">>, <<"1">>, <<"3", "1">>}
DateSeps == {"-", "/", "."}
Pads == {<<>>, <<" ">>}
DateTexts ==
    {lead \o a \o <<s1>> \o b \o <<s2>> \o c \o trail :
        lead \in Pads, a \in DateParts, s1 \in DateSeps, b \in DateParts,
        s2 \in DateSeps, c \in DateParts, trail \in Pads}

\* the values of the documented examples
Text_1_200 == <<"1", ",", "2", "0", "0">>
Text_42 == <<"4", "2">>
Text_19_99 == <<"1", "9", ",", "9", "9">>
Text_1_234_56 == <<"1", ",", "2", "3", "4", ".", "5", "6">>
Text_15_01_2024 == <<"1", "5", ".", "0", "1", ".", "2", "0", "2", "4">>
Text_not_a_date == <<"n", "o", "t", "-", "a", "-", "d", "a", "t", "e">>
ExampleTexts ==
    {Text_1_200, Text_42, Text_19_99, Text_1_234_56, Text_15_01_2024,
     Text_not_a_date, <<" ">> \o Text_not_a_date \o <<" ">>}

TransformInputs == NumberTexts \cup DateTexts \cup ExampleTexts

NoResult == ValidationResult("", "", <<>>, <<>>, "")

(* ------------------ DataValidationAgent: _infer_country ----------------- *)
\* the cased letters of the texts at hand
UpperChars ==
    <<"A", "B", "C", "D", "E", "F", "G", "H", "I", "J", "K", "L", "M", "N", "O", "P", "Q", "R", "S", "T", "U", "V", "W", "X", "Y", "Z", "Á", "Ã", "Ç", "É", "Í", "Ó", "Ü">>
LowerChars ==
    <<"a", "b", "c", "d", "e", "f", "g", "h", "i", "j", "k", "l", "m", "n", "o", "p", "q", "r", "s", "t", "u", "v", "w", "x", "y", "z", "á", "ã", "ç", "é", "í", "ó", "ü">>
UpperSet == SeqToSet(UpperChars)
LowerSet == SeqToSet(LowerChars)
CharIndex(chars, c) == CHOOSE k \in DOMAIN chars : chars[k] = c
IsLetter(c) == c \in UpperSet \cup LowerSet
LowerChar(c) == IF c \in UpperSet THEN LowerChars[CharIndex(UpperChars, c)] ELSE c
UpperChar(c) == IF c \in LowerSet THEN UpperChars[CharIndex(LowerChars, c)] ELSE c
\* str.lower()
Lower(text) == [k \in DOMAIN text |-> LowerChar(text[k])]
\* str.title(): a letter that follows no letter is upper-cased, the others
\* are lower-cased
Title(text) ==
    [k \in DOMAIN text |->
        IF k = 1 \/ ~IsLetter(text[k - 1]) THEN UpperChar(text[k])
        ELSE LowerChar(text[k])]
\* pattern in text
Contains(text, pattern) ==
    \E i \in 1..(Len(text) - Len(pattern) + 1) :
        \A j \in DOMAIN pattern : text[i + j - 1] = pattern[j]

\* the table with italy moved to the front
name_country_patterns_italy_first ==
    <<
      [country |-> <<"i", "t", "a", "l", "y">>,
       patterns |-> <<
                     <<"g", "i", "o", "v", "a", "n", "n", "i">>,
                     <<"g", "i", "u", "s", "e", "p", "p", "e">>,
                     <<"a", "n", "t", "o", "n", "i", "o">>,
                     <<"f", "r", "a", "n", "c", "e", "s", "c", "o">>,
                     <<"m", "a", "r", "i", "o">>,
                     <<"l", "u", "i", "g", "i">>,
                     <<"a", "l", "e", "s", "s", "a", "n", "d", "r", "o">>>>],
      [country |-> <<"s", "p", "a", "i", "n">>,
       patterns |-> <<
                     <<"m", "a", "r", "í", "a">>,
                     <<"j", "o", "s", "é">>,
                     <<"c", "a", "r", "l", "o", "s">>,
                     <<"a", "n", "a">>,
                     <<"m", "a", "n", "u", "e", "l">>,
                     <<"c", "a", "r", "m", "e", "n">>,
                     <<"a", "n", "t", "o", "n", "i", "o">>,
                     <<"f", "r", "a", "n", "c", "i", "s", "c", "o">>>>],
      [country |-> <<"f", "r", "a", "n", "c", "e">>,
       patterns |-> <<
                     <<"j", "e", "a", "n">>,
                     <<"m", "a", "r", "i", "e">>,
                     <<"p", "i", "e", "r", "r", "e">>,
                     <<"j", "a", "c", "q", "u", "e", "s">>,
                     <<"m", "i", "c", "h", "e", "l">>,
                     <<"f", "r", "a", "n", "ç", "o", "i", "s", "e">>,
                     <<"n", "i", "c", "o", "l", "a", "s">>,
                     <<"p", "h", "i", "l", "i", "p", "p", "e">>>>],
      [country |-> <<"g", "e", "r", "m", "a", "n", "y">>,
       patterns |-> <<
                     <<"h", "a", "n", "s">>,
                     <<"k", "l", "a", "u", "s">>,
                     <<"w", "e", "r", "n", "e", "r">>,
                     <<"g", "ü", "n", "t", "e", "r">>,
                     <<"h", "e", "l", "m", "u", "t">>,
                     <<"b", "r", "i", "g", "i", "t", "t", "e">>,
                     <<"u", "r", "s", "u", "l", "a">>,
                     <<"i", "n", "g", "r", "i", "d">>>>],
      [country |-> <<"p", "o", "r", "t", "u", "g", "a", "l">>,
       patterns |-> <<
                     <<"j", "o", "ã", "o">>,
                     <<"a", "n", "t", "ó", "n", "i", "o">>,
                     <<"j", "o", "s", "é">>,
                     <<"m", "a", "n", "u", "e", "l">>,
                     <<"f", "r", "a", "n", "c", "i", "s", "c", "o">>,
                     <<"l", "u", "i", "s">>,
                     <<"p", "e", "d", "r", "o">>>>]>>
\* self.name_country_patterns, in dict order
name_country_patterns ==
    <<
      [country |-> <<"s", "p", "a", "i", "n">>,
       patterns |-> <<
                     <<"m", "a", "r", "í", "a">>,
                     <<"j", "o", "s", "é">>,
                     <<"c", "a", "r", "l", "o", "s">>,
                     <<"a", "n", "a">>,
                     <<"m", "a", "n", "u", "e", "l">>,
                     <<"c", "a", "r", "m", "e", "n">>,
                     <<"a", "n", "t", "o", "n", "i", "o">>,
                     <<"f", "r", "a", "n", "c", "i", "s", "c", "o">>>>],
      [country |-> <<"f", "r", "a", "n", "c", "e">>,
       patterns |-> <<
                     <<"j", "e", "a", "n">>,
                     <<"m", "a", "r", "i", "e">>,
                     <<"p", "i", "e", "r", "r", "e">>,
                     <<"j", "a", "c", "q", "u", "e", "s">>,
                     <<"m", "i", "c", "h", "e", "l">>,
                     <<"f", "r", "a", "n", "ç", "o", "i", "s", "e">>,
                     <<"n", "i", "c", "o", "l", "a", "s">>,
                     <<"p", "h", "i", "l", "i", "p", "p", "e">>>>],
      [country |-> <<"g", "e", "r", "m", "a", "n", "y">>,
       patterns |-> <<
                     <<"h", "a", "n", "s">>,
                     <<"k", "l", "a", "u", "s">>,
                     <<"w", "e", "r", "n", "e", "r">>,
                     <<"g", "ü", "n", "t", "e", "r">>,
                     <<"h", "e", "l", "m", "u", "t">>,
                     <<"b", "r", "i", "g", "i", "t", "t", "e">>,
                     <<"u", "r", "s", "u", "l", "a">>,
                     <<"i", "n", "g", "r", "i", "d">>>>],
      [country |-> <<"i", "t", "a", "l", "y">>,
       patterns |-> <<
                     <<"g", "i", "o", "v", "a", "n", "n", "i">>,
                     <<"g", "i", "u", "s", "e", "p", "p", "e">>,
                     <<"a", "n", "t", "o", "n", "i", "o">>,
                     <<"f", "r", "a", "n", "c", "e", "s", "c", "o">>,
                     <<"m", "a", "r", "i", "o">>,
                     <<"l", "u", "i", "g", "i">>,
                     <<"a", "l", "e", "s", "s", "a", "n", "d", "r", "o">>>>],
      [country |-> <<"p", "o", "r", "t", "u", "g", "a", "l">>,
       patterns |-> <<
                     <<"j", "o", "ã", "o">>,
                     <<"a", "n", "t", "ó", "n", "i", "o">>,
                     <<"j", "o", "s", "é">>,
                     <<"m", "a", "n", "u", "e", "l">>,
                     <<"f", "r", "a", "n", "c", "i", "s", "c", "o">>,
                     <<"l", "u", "i", "s">>,
                     <<"p", "e", "d", "r", "o">>>>]>>
\* self.language_country_map
language_country_map ==
    <<[language |-> "es", country |-> <<"S", "p", "a", "i", "n">>],
      [language |-> "fr", country |-> <<"F", "r", "a", "n", "c", "e">>],
      [language |-> "de", country |-> <<"G", "e", "r", "m", "a", "n", "y">>],
      [language |-> "it", country |-> <<"I", "t", "a", "l", "y">>],
      [language |-> "pt", country |-> <<"P", "o", "r", "t", "u", "g", "a", "l">>],
      [language |-> "en", country |-> <<"U", "K">>]>>
LanguageKeys == {language_country_map[k].language : k \in DOMAIN language_country_map}
CountryOfLanguage(language) ==
    language_country_map[CHOOSE k \in DOMAIN language_country_map :
                            language_country_map[k].language = language].country
Unknown == <<"U", "n", "k", "n", "o", "w", "n">>

\* a cell of a row: a str, or a number (isinstance(field_value, str) fails)
StrCell(text) == [is_str |-> TRUE, text |-> text]
NumCell(text) == [is_str |-> FALSE, text |-> text]

\* for pattern in patterns: if pattern in name_lower
AnyPatternIn(patterns, name_lower) ==
    \E k \in DOMAIN patterns : Contains(name_lower, patterns[k])

RECURSIVE CountryOfName(_, _)
\* for country, patterns in self.name_country_patterns.items(): first hit,
\* <<>> when the loop ends without one
CountryOfName(table, name_lower) ==
    IF table = <<>> THEN <<>>
    ELSE IF AnyPatternIn(Head(table).patterns, name_lower)
         THEN Title(Head(table).country)
         ELSE CountryOfName(Tail(table), name_lower)

RECURSIVE CountryOfNames(_)
\* for field_value in row.values(): first hit, <<>> when there is none
CountryOfNames(row) ==
    IF row = <<>> THEN <<>>
    ELSE LET name_lower == Lower(Head(row).text)
             hit == IF Head(row).is_str
                    THEN CountryOfName(name_country_patterns, name_lower)
                    ELSE <<>>
         IN  IF hit # <<>> THEN hit ELSE CountryOfNames(Tail(row))

RECURSIVE CountryOfDetections(_)
\* for detection in self.language_detections.values(): first language of the table
CountryOfDetections(detections) ==
    IF detections = <<>> THEN Unknown
    ELSE IF Head(detections).detected_language \in LanguageKeys
         THEN CountryOfLanguage(Head(detections).detected_language)
         ELSE CountryOfDetections(Tail(detections))

_infer_country(row, detections) ==
    LET from_names == CountryOfNames(row)
    IN  IF from_names # <<>> THEN from_names ELSE CountryOfDetections(detections)

RECURSIVE DictOfDetections(_, _, _)
\* {d.column: d for d in detections if d.column in df.columns}: a key keeps
\* the place of its first insertion and the value of its last
DictOfDetections(detections, columns, dict) ==
    IF detections = <<>> THEN dict
    ELSE LET d == Head(detections)
             at == {k \in DOMAIN dict : dict[k].column = d.column}
         IN  IF d.column \notin SeqToSet(columns)
             THEN DictOfDetections(Tail(detections), columns, dict)
             ELSE IF at = {}
                  THEN DictOfDetections(Tail(detections), columns, Append(dict, d))
                  ELSE DictOfDetections(Tail(detections), columns,
                                        [dict EXCEPT ![CHOOSE k \in at : TRUE] = d])

(* --------------- DataValidationAgent: _calculate_quality_score ---------- *)
\* a float quotient of two naturals, kept exact
Quotient(num, den) == [num |-> num, den |-> den]
OnlyValid == {"valid"}
GoodStatuses == {"valid", "fixed", "enriched"}
\* r.status in ["valid", "fixed", "enriched"]
IsGood(r) == r.status \in GoodStatuses
_calculate_quality_score(results) ==
    IF results = <<>> THEN Quotient(0, 1)
    ELSE Quotient(Len(SelectSeq(results, IsGood)), Len(results))

(* ----------------- inputs of the inference and the score --------------- *)
\* the longest row, and the longest list of outcomes, looked at
MaxCells == 2
MaxResults == 4
Cell_Maria_Garcia == StrCell(<<"M", "a", "r", "í", "a", " ", "G", "a", "r", "c", "í", "a">>)
Cell_Antonio == StrCell(<<"A", "n", "t", "o", "n", "i", "o">>)
Cell_LUIGI == StrCell(<<"L", "U", "I", "G", "I">>)
Cell_Hans == StrCell(<<"H", "a", "n", "s">>)
Cell_x == StrCell(<<"x">>)
Cell_42 == NumCell(<<"4", "2">>)
Cells == {Cell_Maria_Garcia, Cell_Antonio, Cell_LUIGI, Cell_Hans, Cell_x, Cell_42}
\* column names of the file; one of them is called "header"
FileColumns == {"nombre", "cantidad", "header"}
\* languages langdetect may report; "nl" is not in the language table
DetectedLanguages == {"es", "en", "nl"}
Distinct(s) == \A i, j \in DOMAIN s : s[i] = s[j] => i = j
HeaderLists ==
    {hs \in UNION {[1..n -> FileColumns] : n \in 1..MaxCells} : Distinct(hs)}
LanguageDetection(column, language) ==
    [column |-> column, detected_language |-> language]
Statuses == {"valid", "fixed", "enriched", "error"}
ResultLists ==
    UNION {[1..n -> {ValidationResult("quantity", s, <<>>, <<>>, "none") : s \in Statuses}]
           : n \in 0..MaxResults}
NoScore == Quotient(0, 0)

(* ------------------------------ state ---------------------------------- *)
VARIABLES
    pc,                 \* position in process_csv
    headers,            \* df.columns.tolist()
    nrows,              \* len(df)
    ai_answer,          \* the answer of the latest classifier call
    classifier_calls,   \* how often the classifier backend was called
    mappings,           \* the list built by the mapping loop
    target_field_map,   \* target field -> winning mapping
    resolved_mappings,  \* the resolved list
    current_mappings,   \* validation_agent.current_mappings, in dict order
    missing_fields,     \* validation_agent.missing_fields
    rejected_count,     \* validation_agent.rejected_count
    enhanced_data,      \* one key sequence per enhanced row, in dict order
    file_state,         \* the input file: "missing", "unreadable" or "ok"
    output_path,        \* the output_path argument of process_csv
    output_file,        \* what is stored at the output path
    validation_results, \* the outcomes validate_and_enhance_data collects
    final_result,       \* the FinalResultMessage of the validation agent
    returned,           \* what process_csv returns or raises
    t_pc,               \* a transform of one value: "off", "input" or "done"
    t_value,            \* the text of the value handed to _validate_and_transform
    t_transformation,   \* the transformation it is called with
    t_result,           \* the ValidationResult it returns
    c_pc,               \* a country inference: "off", "detect", "infer" or "done"
    c_headers,          \* the columns of the file
    c_row,              \* the cells of one row, in column order
    detections,         \* the detections process_csv collects
    language_detections,\* validation_agent.language_detections, in dict order
    c_country,          \* the country _infer_country returns
    q_pc,               \* a quality score: "off", "input" or "done"
    q_results,          \* the outcomes handed to _calculate_quality_score
    q_score,            \* the score it returns
    m_pc,               \* test_basic_functionality: "off", "detection", "message" or "returned"
    m_detection_kwargs, \* the keywords LanguageDetection is called with
    m_message_kwargs,   \* the keywords ProcessCSVMessage is called with
    m_detection,        \* the LanguageDetection created
    m_message,          \* the ProcessCSVMessage created
    m_error,            \* the exception the except clause caught
    m_returned,         \* what test_basic_functionality returns
    a_pc,               \* SalesDataHarmonizer.process_csv: "off", "start", "sleeping" or "done"
    a_file,             \* the number of this call of process_csv on the harmonizer
    a_in_flight,        \* the messages published and not yet handled
    a_current_mappings, \* validation_agent.current_mappings, in dict order
    a_missing_fields,   \* validation_agent.missing_fields
    a_mappings_file,    \* the call whose mappings the agent holds, 0: attribute not set
    a_validation_results, \* the outcomes validate_and_enhance_data collects
    a_enhanced_data,    \* one key sequence per enhanced row
    a_returned          \* what process_csv returns

vars == <<pc, headers, nrows, ai_answer, classifier_calls, mappings, target_field_map,
          resolved_mappings, current_mappings, missing_fields, rejected_count,
          enhanced_data, file_state, output_path, output_file,
          validation_results, final_result, returned, t_pc, t_value, t_transformation, t_result,
          c_pc, c_headers, c_row, detections, language_detections, c_country,
          q_pc, q_results, q_score,
          m_pc, m_detection_kwargs, m_message_kwargs, m_detection, m_message,
          m_error, m_returned,
          a_pc, a_file, a_in_flight, a_current_mappings, a_missing_fields,
          a_mappings_file, a_validation_results, a_enhanced_data, a_returned>>

\* the variables of process_csv
pipeline_vars ==
    <<pc, headers, nrows, ai_answer, classifier_calls, mappings,
      target_field_map, resolved_mappings, current_mappings, missing_fields,
      rejected_count, enhanced_data, file_state, output_path, output_file,
      validation_results, final_result, returned>>

\* the variables of a single transform
transform_vars == <<t_pc, t_value, t_transformation, t_result>>

\* the variables of a country inference
country_vars ==
    <<c_pc, c_headers, c_row, detections, language_detections, c_country>>

\* the variables of a quality score
score_vars == <<q_pc, q_results, q_score>>

models_vars ==
    <<m_pc, m_detection_kwargs, m_message_kwargs, m_detection, m_message,
      m_error, m_returned>>

\* the variables of SalesDataHarmonizer.process_csv and its agents
agents_vars ==
    <<a_pc, a_file, a_in_flight, a_current_mappings, a_missing_fields,
      a_mappings_file, a_validation_results, a_enhanced_data, a_returned>>

\* the variables of the remaining units
extra_vars == <<models_vars, agents_vars>>

\* the variables outside process_csv
unit_vars == <<transform_vars, country_vars, score_vars, extra_vars>>

\* no test of the models is under way
ModelsOff ==
    /\ m_pc = "off"
    /\ m_detection_kwargs = {}
    /\ m_message_kwargs = {}
    /\ m_detection = None
    /\ m_message = None
    /\ m_error = None
    /\ m_returned = None

\* no SalesDataHarmonizer is at work
AgentsOff ==
    /\ a_pc = "off"
    /\ a_file = 0
    /\ a_in_flight = {}
    /\ a_current_mappings = <<>>
    /\ a_missing_fields = <<>>
    /\ a_mappings_file = 0
    /\ a_validation_results = <<>>
    /\ a_enhanced_data = <<>>
    /\ a_returned = None

ExtraOff == ModelsOff /\ AgentsOff

\* no country inference is under way
CountryOff ==
    /\ c_pc = "off"
    /\ c_headers = <<>>
    /\ c_row = <<>>
    /\ detections = <<>>
    /\ language_detections = <<>>
    /\ c_country = <<>>

\* no quality score is under way
ScoreOff ==
    /\ q_pc = "off"
    /\ q_results = <<>>
    /\ q_score = NoScore

\* no transform is under way
TransformOff ==
    /\ t_pc = "off"
    /\ t_value = <<>>
    /\ t_transformation = "none"
    /\ t_result = NoResult

\* pandas gives every column its own name
ColumnNames == <<"c1", "c2", "c3", "c4", "c5">>

\* the call process_csv(input_file, str(output)) of the command line on a
\* fresh harmonizer: the command line always names an output file; the
\* input file may be gone or unreadable by the time of the call
Init ==
    /\ pc = "start"
    /\ file_state \in {"missing", "unreadable", "ok"}
    /\ output_path = Str("out.csv")
    /\ output_file = None
    /\ headers = <<>>
    /\ nrows = 0
    /\ validation_results = <<>>
    /\ final_result = None
    /\ returned = None
    /\ ai_answer = NoAnswer
    /\ classifier_calls = 0
    /\ mappings = <<>>
    /\ target_field_map = <<>>
    /\ resolved_mappings = <<>>
    /\ current_mappings = <<>>
    /\ missing_fields = <<>>
    /\ rejected_count = 0
    /\ enhanced_data = <<>>
    /\ TransformOff
    /\ CountryOff
    /\ ScoreOff
    /\ ExtraOff

(* ----------------- conflict resolution (process_csv) ------------------- *)
\* target_field_map is a function from the target fields seen so far
NotIn(tfm, f) == f \notin DOMAIN tfm

\* a comparison that lets a later column take the field on a tie
BeatsOrTies(mapping, current) == mapping.mapping_confidence >= current.mapping_confidence

\* mapping.mapping_confidence > target_field_map[target_field].mapping_confidence
Beats(mapping, current) == mapping.mapping_confidence > current.mapping_confidence

\* a winner test that every tentatively mapped column passes
EveryoneWins(tfm, mapping) == TRUE

\* target_field_map[mapping.target_field] == mapping (dataclass equality)
IsWinner(tfm, mapping) == tfm[mapping.target_field] = mapping

\* a first loop that forgets the rejected mappings
DropRejected(resolved, mapping) == resolved

\* resolved_mappings.append(mapping) for a mapping that is not "mapped"
KeepRejected(resolved, mapping) == Append(resolved, mapping)

RECURSIVE FirstPass(_, _, _)
\* first loop over mappings: choose the winner of every target field and
\* move the rejected mappings to the resolved list
FirstPass(ms, tfm, resolved) ==
    IF ms = <<>> THEN [tfm |-> tfm, resolved |-> resolved]
    ELSE LET mapping == Head(ms)
         IN  IF mapping.status = "mapped"
             THEN IF NotIn(tfm, mapping.target_field)
                     \/ Beats(mapping, tfm[mapping.target_field])
                  THEN FirstPass(Tail(ms),
                                 [f \in DOMAIN tfm \cup {mapping.target_field} |->
                                    IF f = mapping.target_field THEN mapping ELSE tfm[f]],
                                 resolved)
                  ELSE FirstPass(Tail(ms), tfm, resolved)
             ELSE FirstPass(Tail(ms), tfm, KeepRejected(resolved, mapping))

\* the rejected copy of a mapping that lost its target field
Loser(mapping, winner) ==
    SchemaMapping(mapping.source_column, "unmapped", mapping.mapping_confidence,
                  "none", "rejected",
                  FStr(<<"Duplicate mapping conflict - '", winner.source_column,
                         "' has higher confidence">>))

RECURSIVE SecondPass(_, _, _)
\* second loop over mappings: append the winners, reject the losers
SecondPass(ms, tfm, resolved) ==
    IF ms = <<>> THEN resolved
    ELSE LET mapping == Head(ms)
         IN  IF mapping.status = "mapped"
             THEN IF IsWinner(tfm, mapping)
                  THEN SecondPass(Tail(ms), tfm, Append(resolved, mapping))
                  ELSE SecondPass(Tail(ms), tfm,
                                  Append(resolved,
                                         Loser(mapping, tfm[mapping.target_field])))
             ELSE SecondPass(Tail(ms), tfm, resolved)

(* ------------------- missing fields (process_csv) ---------------------- *)
RECURSIVE TargetFields(_)
\* {m.target_field for m in mappings if m.status == "mapped"}
TargetFields(ms) ==
    IF ms = <<>> THEN {}
    ELSE (IF Head(ms).status = "mapped" THEN {Head(ms).target_field} ELSE {})
         \cup TargetFields(Tail(ms))

RECURSIVE FieldsNotIn(_, _)
\* [field for field in schema if field not in mapped_fields]
FieldsNotIn(schema, mapped_fields) ==
    IF schema = <<>> THEN <<>>
    ELSE IF Head(schema) \notin mapped_fields
         THEN <<Head(schema)>> \o FieldsNotIn(Tail(schema), mapped_fields)
         ELSE FieldsNotIn(Tail(schema), mapped_fields)

\* missing fields taken from the classifier's field list
MissingOfValidFields(ms) == FieldsNotIn(valid_fields, TargetFields(ms))

MissingFields(ms) == FieldsNotIn(target_schema, TargetFields(ms))

(* ---------------- DataValidationAgent: enhanced rows ------------------- *)
\* d[key] = value on a dict with the keys `keys` (insertion order kept)
DictSet(keys, key) == IF key \in SeqToSet(keys) THEN keys ELSE Append(keys, key)

RECURSIVE MappedKeys(_, _)
\* for source_col, mapping in current_mappings.items():
\*     enhanced_row[mapping.target_field] = result.final_value
MappedKeys(cms, keys) ==
    IF cms = <<>> THEN keys
    ELSE MappedKeys(Tail(cms), DictSet(keys, Head(cms).target_field))

RECURSIVE EnrichedKeys(_, _)
\* for missing_field in missing_fields: only "country" is enriched
EnrichedKeys(missing, keys) ==
    IF missing = <<>> THEN keys
    ELSE IF Head(missing) = "country"
         THEN EnrichedKeys(Tail(missing), DictSet(keys, "country"))
         ELSE EnrichedKeys(Tail(missing), keys)

EnhancedRow(cms, missing) == EnrichedKeys(missing, MappedKeys(cms, <<>>))

(* ------------- DataValidationAgent: outcomes of one row ---------------- *)
\* the cells of the file: row i, column j holds CellText(i, j)
CellTexts ==
    <<Text_1_200, <<"A", "n", "a">>, Text_42, Text_19_99, <<"1", ".", "5">>,
      <<"x", " ", "y">>, <<"1", "/", "2", "/", "2", "4">>>>
CellText(i, j) == CellTexts[((2 * i + j) % Len(CellTexts)) + 1]
ColumnIndex(column) == CHOOSE j \in DOMAIN ColumnNames : ColumnNames[j] = column
\* row.to_dict().values() of row i of a file with n columns
RowCells(n, i) == [j \in 1..n |-> StrCell(CellText(i, j))]

RECURSIVE MappedOutcomes(_, _)
\* for source_col, mapping in current_mappings.items():
\*     validation_results.append(_validate_and_transform(row[source_col], ...))
MappedOutcomes(cms, i) ==
    IF cms = <<>> THEN <<>>
    ELSE <<_validate_and_transform(CellText(i, ColumnIndex(Head(cms).source_column)),
                                   Head(cms).target_field,
                                   Head(cms).transformation_needed)>>
         \o MappedOutcomes(Tail(cms), i)

\* an outcome for every missing field
EnrichEveryMissing(missing, country) ==
    [k \in DOMAIN missing |->
        ValidationResult(missing[k], "enriched", <<>>, country,
                         "Inferred from name patterns and language")]

RECURSIVE EnrichedOutcomes(_, _)
\* for missing_field in missing_fields: one outcome when it is "country"
EnrichedOutcomes(missing, country) ==
    IF missing = <<>> THEN <<>>
    ELSE IF Head(missing) = "country"
         THEN <<ValidationResult("country", "enriched", <<>>,
                                 country,
                                 "Inferred from name patterns and language")>>
              \o EnrichedOutcomes(Tail(missing), country)
         ELSE EnrichedOutcomes(Tail(missing), country)

RECURSIVE OutcomesOfRows(_, _, _, _)
\* for index, row in df.iterrows(): the outcomes of the first n rows of a
\* file with ncols columns; no detection is stored for the inference, as no
\* column is called "header"
OutcomesOfRows(cms, missing, ncols, n) ==
    IF n = 0 THEN <<>>
    ELSE OutcomesOfRows(cms, missing, ncols, n - 1)
         \o MappedOutcomes(cms, n)
         \o EnrichedOutcomes(missing, _infer_country(RowCells(ncols, n), <<>>))

(* ----------------------- results of the pipeline ----------------------- *)
FinalResultMessage(mapped_data, processing_summary, success) ==
    [mapped_data |-> mapped_data, processing_summary |-> processing_summary,
     success |-> success]
\* the summary of a validation that went through
ProcessingSummary(total, cms, missing, results) ==
    [total_records |-> total,
     fields_mapped |-> Len(cms),
     fields_enriched |-> Len(missing),
     quality_score |-> _calculate_quality_score(results),
     validation_results |-> Len(results)]
\* str(e) of the exception a step raised
ErrorText(step) == FStr(<<step, " failed">>)
\* output_path and ...: None and "" are false
Truthy(v) == NonEmptyStr(v)
PreviewRows == 3
\* result.mapped_data[:3]
Preview(rows) ==
    SubSeq(rows, 1, IF Len(rows) < PreviewRows THEN Len(rows) ELSE PreviewRows)
_format_results(result) ==
    IF ~result.success
    THEN [success |-> FALSE, error |-> result.processing_summary.error]
    ELSE [success |-> TRUE,
          summary |-> result.processing_summary,
          data_preview |-> Preview(result.mapped_data),
          total_records |-> Len(result.mapped_data)]
\* the exception leaves process_csv
Raised(name) == [raised |-> name]

(* ------------------------------ actions -------------------------------- *)
\* os.path.exists fails: FileNotFoundError leaves process_csv
FileNotFound ==
    /\ UNCHANGED <<unit_vars, classifier_calls>>
    /\ pc = "start"
    /\ file_state = "missing"
    /\ returned' = Raised("FileNotFoundError")
    /\ pc' = "raised"
    /\ UNCHANGED <<headers, nrows, ai_answer, mappings, target_field_map,
                   resolved_mappings, current_mappings, missing_fields,
                   rejected_count, enhanced_data, file_state, output_path,
                   output_file, validation_results, final_result>>

\* pd.read_csv raises inside the try: the except clause returns the failure
ReadFails ==
    /\ UNCHANGED <<unit_vars, classifier_calls>>
    /\ pc = "start"
    /\ file_state = "unreadable"
    /\ returned' = [success |-> FALSE, error |-> ErrorText("read_csv")]
    /\ pc' = "failed"
    /\ UNCHANGED <<headers, nrows, ai_answer, mappings, target_field_map,
                   resolved_mappings, current_mappings, missing_fields,
                   rejected_count, enhanced_data, file_state, output_path,
                   output_file, validation_results, final_result>>

\* pd.read_csv gives the columns of the file
ReadFile ==
    /\ UNCHANGED <<unit_vars, classifier_calls>>
    /\ pc = "start"
    /\ file_state = "ok"
    /\ \E n \in 1..MaxCols : headers' = SubSeq(ColumnNames, 1, n)
    /\ pc' = "map"
    /\ UNCHANGED <<nrows, ai_answer, mappings, target_field_map,
                   resolved_mappings, current_mappings, missing_fields,
                   rejected_count, enhanced_data, file_state, output_path,
                   output_file, validation_results, final_result, returned>>

\* a mapping loop that asks the classifier backend twice for a column
ClassifierCallTwice ==
    /\ UNCHANGED unit_vars
    /\ pc = "map"
    /\ Len(mappings) < Len(headers)
    /\ \E ans \in ClassifierAnswers : ai_answer' = ans
    /\ classifier_calls' = classifier_calls + 2
    /\ pc' = "classified"
    /\ UNCHANGED <<headers, nrows, mappings, target_field_map, resolved_mappings,
                   current_mappings, missing_fields, rejected_count, enhanced_data,
                   file_state, output_path, output_file, validation_results,
                   final_result, returned>>

\* the mapping loop calls the classifier backend for the next column
ClassifierCall ==
    /\ UNCHANGED unit_vars
    /\ pc = "map"
    /\ Len(mappings) < Len(headers)
    /\ \E ans \in ClassifierAnswers : ai_answer' = ans
    /\ classifier_calls' = classifier_calls + 1
    /\ pc' = "classified"
    /\ UNCHANGED <<headers, nrows, mappings, target_field_map, resolved_mappings,
                   current_mappings, missing_fields, rejected_count, enhanced_data,
                   file_state, output_path, output_file, validation_results,
                   final_result, returned>>

\* the score of a local lexical comparison of the column's text with the
\* keyword "c1": the ratio of SequenceMatcher, 1.0 for the same text and
\* 0.5 for "c2" to "c5"
LexicalScore(column) == IF column = "c1" THEN 100 ELSE 50
\* the escalation threshold of the policy, 0.6 as the acceptance threshold
EscalationThreshold == AcceptThreshold

\* a resolver that keeps its lexical guess for a column that scores at or
\* above the escalation threshold and decides the others by the classifier
MapColumnLexicalFirst ==
    /\ UNCHANGED <<unit_vars, classifier_calls>>
    /\ pc = "classified"
    /\ LET column == headers[Len(mappings) + 1]
       IN  mappings' =
              Append(mappings,
                     IF LexicalScore(column) >= EscalationThreshold
                     THEN SchemaMapping(column, "customer_name",
                                        LexicalScore(column),
                                        _determine_transformation("customer_name"),
                                        "mapped", None)
                     ELSE _map_column_to_schema(column, ai_answer))
    /\ ai_answer' = NoAnswer
    /\ pc' = "map"
    /\ UNCHANGED <<headers, nrows, target_field_map, resolved_mappings,
                   current_mappings, missing_fields, rejected_count, enhanced_data,
                   file_state, output_path, output_file, validation_results,
                   final_result, returned>>

\* _map_column_to_schema returns the column's mapping; its locals are gone
MapColumn ==
    /\ UNCHANGED <<unit_vars, classifier_calls>>
    /\ pc = "classified"
    /\ mappings' = Append(mappings,
                          _map_column_to_schema(headers[Len(mappings) + 1], ai_answer))
    /\ ai_answer' = NoAnswer
    /\ pc' = "map"
    /\ UNCHANGED <<headers, nrows, target_field_map, resolved_mappings,
                   current_mappings, missing_fields, rejected_count, enhanced_data,
                   file_state, output_path, output_file, validation_results,
                   final_result, returned>>

\* both resolution loops; the list `mappings` of the code is rebound to the
\* resolved list, the model keeps the unresolved list in `mappings`
ResolveConflicts ==
    /\ UNCHANGED <<unit_vars, classifier_calls>>
    /\ pc = "map"
    /\ Len(mappings) = Len(headers)
    /\ LET first == FirstPass(mappings, <<>>, <<>>)
       IN  /\ target_field_map' = first.tfm
           /\ resolved_mappings' = SecondPass(mappings, first.tfm, first.resolved)
    /\ pc' = "resolved"
    /\ UNCHANGED <<headers, nrows, ai_answer, mappings, current_mappings,
                   missing_fields, rejected_count, enhanced_data, file_state,
                   output_path, output_file, validation_results, final_result,
                   returned>>

\* hand the mapped decisions and the missing fields to the validation agent
SetValidationState ==
    /\ UNCHANGED <<unit_vars, classifier_calls>>
    /\ pc = "resolved"
    /\ current_mappings' = SelectSeqBy(resolved_mappings, "mapped")
    /\ rejected_count' = Len(SelectSeqBy(resolved_mappings, "rejected"))
    /\ missing_fields' = MissingFields(resolved_mappings)
    /\ pc' = "read"
    /\ UNCHANGED <<headers, nrows, ai_answer, mappings, target_field_map,
                   resolved_mappings, enhanced_data, file_state, output_path,
                   output_file, validation_results, final_result, returned>>

\* validate_and_enhance_data reads the file, which has no row or MaxRows
\* rows, goes through its rows and answers with the assembled
\* FinalResultMessage
ValidateAndEnhance ==
    /\ UNCHANGED <<unit_vars, classifier_calls>>
    /\ pc = "read"
    /\ \E n \in {0, MaxRows} :
          /\ nrows' = n
          /\ validation_results' =
                OutcomesOfRows(current_mappings, missing_fields, Len(headers), n)
          /\ enhanced_data' =
                [i \in 1..n |-> EnhancedRow(current_mappings, missing_fields)]
    /\ final_result' =
          FinalResultMessage(enhanced_data',
                             ProcessingSummary(nrows', current_mappings,
                                               missing_fields, validation_results'),
                             TRUE)
    /\ pc' = "assembled"
    /\ UNCHANGED <<headers, ai_answer, mappings, target_field_map,
                   resolved_mappings, current_mappings, missing_fields,
                   rejected_count, file_state, output_path, output_file, returned>>

\* validate_and_enhance_data raises (the file is gone by now): its except
\* clause answers with a failed FinalResultMessage without rows
ValidationFails ==
    /\ UNCHANGED <<unit_vars, classifier_calls>>
    /\ pc = "read"
    /\ final_result' = FinalResultMessage(<<>>, [error |-> ErrorText("validation")], FALSE)
    /\ pc' = "assembled"
    /\ UNCHANGED <<headers, nrows, ai_answer, mappings, target_field_map,
                   resolved_mappings, current_mappings, missing_fields,
                   rejected_count, enhanced_data, file_state, output_path,
                   output_file, validation_results, returned>>

\* a save that does not look at final_result.success
SaveRegardless ==
    /\ UNCHANGED <<unit_vars, classifier_calls>>
    /\ pc = "assembled"
    /\ Truthy(output_path)
    /\ output_file' = [rows |-> final_result.mapped_data]
    /\ returned' = _format_results(final_result)
    /\ pc' = "done"
    /\ UNCHANGED <<headers, nrows, ai_answer, mappings, target_field_map,
                   resolved_mappings, current_mappings, missing_fields,
                   rejected_count, enhanced_data, file_state, output_path,
                   validation_results, final_result>>

\* if output_path and final_result.success: _save_results writes the rows;
\* then the formatted result is returned
SaveResults ==
    /\ UNCHANGED <<unit_vars, classifier_calls>>
    /\ pc = "assembled"
    /\ Truthy(output_path) /\ final_result.success
    /\ output_file' = [rows |-> final_result.mapped_data]
    /\ returned' = _format_results(final_result)
    /\ pc' = "done"
    /\ UNCHANGED <<headers, nrows, ai_answer, mappings, target_field_map,
                   resolved_mappings, current_mappings, missing_fields,
                   rejected_count, enhanced_data, file_state, output_path,
                   validation_results, final_result>>

\* to_csv raises: _save_results logs the error and returns; then the
\* formatted result is returned
SaveFails ==
    /\ UNCHANGED <<unit_vars, classifier_calls>>
    /\ pc = "assembled"
    /\ Truthy(output_path) /\ final_result.success
    /\ returned' = _format_results(final_result)
    /\ pc' = "done"
    /\ UNCHANGED <<headers, nrows, ai_answer, mappings, target_field_map,
                   resolved_mappings, current_mappings, missing_fields,
                   rejected_count, enhanced_data, file_state, output_path,
                   output_file, validation_results, final_result>>

\* nothing to save: return self._format_results(final_result)
Return ==
    /\ UNCHANGED <<unit_vars, classifier_calls>>
    /\ pc = "assembled"
    /\ ~(Truthy(output_path) /\ final_result.success)
    /\ returned' = _format_results(final_result)
    /\ pc' = "done"
    /\ UNCHANGED <<headers, nrows, ai_answer, mappings, target_field_map,
                   resolved_mappings, current_mappings, missing_fields,
                   rejected_count, enhanced_data, file_state, output_path,
                   output_file, validation_results, final_result>>

Next ==
    \/ FileNotFound
    \/ ReadFails
    \/ ReadFile
    \/ ClassifierCall
    \/ MapColumn
    \/ ResolveConflicts
    \/ SetValidationState
    \/ ValidateAndEnhance
    \/ ValidationFails
    \/ SaveResults
    \/ SaveFails
    \/ Return

Spec == Init /\ [][Next]_vars

(* ------------- one call of _validate_and_transform alone --------------- *)
\* process_csv is not running
PipelineOff ==
    /\ pc = "off"
    /\ headers = <<>>
    /\ nrows = 0
    /\ ai_answer = NoAnswer
    /\ classifier_calls = 0
    /\ mappings = <<>>
    /\ target_field_map = <<>>
    /\ resolved_mappings = <<>>
    /\ current_mappings = <<>>
    /\ missing_fields = <<>>
    /\ rejected_count = 0
    /\ enhanced_data = <<>>
    /\ file_state = "ok"
    /\ output_path = None
    /\ output_file = None
    /\ validation_results = <<>>
    /\ final_result = None
    /\ returned = None

TransformInit ==
    /\ PipelineOff
    /\ CountryOff
    /\ ScoreOff
    /\ ExtraOff
    /\ t_pc = "input"
    /\ t_value \in TransformInputs
    /\ t_transformation = "none"
    /\ t_result = NoResult

\* the call _validate_and_transform(value, field, transformation, row)
Transform(field, transformation) ==
    /\ t_pc = "input"
    /\ t_transformation' = transformation
    /\ t_result' = _validate_and_transform(t_value, field, transformation)
    /\ t_pc' = "done"
    /\ UNCHANGED t_value
    /\ UNCHANGED <<pipeline_vars, country_vars, score_vars, extra_vars>>

ConvertToInteger == Transform("quantity", "convert_to_integer")
ConvertToDecimal == Transform("unit_price", "convert_to_decimal")
ParseDate == Transform("sale_date", "parse_date")
CleanString == Transform("customer_name", "none")

TransformNext ==
    \/ ConvertToInteger
    \/ ConvertToDecimal
    \/ ParseDate
    \/ CleanString

TransformSpec == TransformInit /\ [][TransformNext]_vars

(* ------------------- the country of one row, alone ---------------------- *)
CountryInit ==
    /\ PipelineOff
    /\ TransformOff
    /\ ScoreOff
    /\ ExtraOff
    /\ c_pc = "detect"
    /\ c_headers \in HeaderLists
    /\ c_row \in [DOMAIN c_headers -> Cells]
    /\ detections = <<>>
    /\ language_detections = <<>>
    /\ c_country = <<>>

\* process_csv detects the language of the next header; the detection is
\* filed under the column "header"
DetectHeader ==
    /\ c_pc = "detect"
    /\ Len(detections) < Len(c_headers)
    /\ \E language \in DetectedLanguages :
          detections' = Append(detections, LanguageDetection("header", language))
    /\ UNCHANGED <<c_pc, c_headers, c_row, language_detections, c_country>>
    /\ UNCHANGED <<pipeline_vars, transform_vars, score_vars, extra_vars>>

\* validate_and_enhance_data stores the detections of the file's columns
StoreDetections ==
    /\ c_pc = "detect"
    /\ Len(detections) = Len(c_headers)
    /\ language_detections' = DictOfDetections(detections, c_headers, <<>>)
    /\ c_pc' = "infer"
    /\ UNCHANGED <<c_headers, c_row, detections, c_country>>
    /\ UNCHANGED <<pipeline_vars, transform_vars, score_vars, extra_vars>>

\* the row loop infers the missing country of the row
InferCountry ==
    /\ c_pc = "infer"
    /\ c_country' = _infer_country(c_row, language_detections)
    /\ c_pc' = "done"
    /\ UNCHANGED <<c_headers, c_row, detections, language_detections>>
    /\ UNCHANGED <<pipeline_vars, transform_vars, score_vars, extra_vars>>

CountryNext ==
    \/ DetectHeader
    \/ StoreDetections
    \/ InferCountry

CountrySpec == CountryInit /\ [][CountryNext]_vars

(* ------------------------ one quality score, alone ---------------------- *)
ScoreInit ==
    /\ PipelineOff
    /\ TransformOff
    /\ CountryOff
    /\ ExtraOff
    /\ q_pc = "input"
    /\ q_results \in ResultLists
    /\ q_score = NoScore

CalculateQualityScore ==
    /\ q_pc = "input"
    /\ q_score' = _calculate_quality_score(q_results)
    /\ q_pc' = "done"
    /\ UNCHANGED q_results
    /\ UNCHANGED <<pipeline_vars, transform_vars, country_vars, extra_vars>>

ScoreNext == CalculateQualityScore

ScoreSpec == ScoreInit /\ [][ScoreNext]_vars

(* ------------- test_basic_functionality: the data models --------------- *)
\* the fields of the dataclass LanguageDetection, none with a default
LanguageDetectionFields ==
    {"column", "detected_language", "detected_language_full",
     "translated_text", "confidence"}
\* the fields of the pydantic model ProcessCSVMessage, none with a default
ProcessCSVMessageFields == {"file_path", "target_schema"}
\* __init__ of a class whose fields have no default: every field is required
Creatable(fields, kwargs) == fields \subseteq kwargs

ModelsInit ==
    /\ PipelineOff
    /\ TransformOff
    /\ CountryOff
    /\ ScoreOff
    /\ AgentsOff
    /\ m_pc = "detection"
    /\ m_detection_kwargs \in SUBSET LanguageDetectionFields
    /\ m_message_kwargs \in SUBSET ProcessCSVMessageFields
    /\ m_detection = None
    /\ m_message = None
    /\ m_error = None
    /\ m_returned = None

\* detection = LanguageDetection(...)
CreateLanguageDetection ==
    /\ m_pc = "detection"
    /\ Creatable(LanguageDetectionFields, m_detection_kwargs)
    /\ m_detection' = [fields |-> m_detection_kwargs]
    /\ m_pc' = "message"
    /\ UNCHANGED <<m_detection_kwargs, m_message_kwargs, m_message, m_error,
                   m_returned>>
    /\ UNCHANGED <<pipeline_vars, transform_vars, country_vars, score_vars,
                   agents_vars>>

\* a required argument is missing: TypeError, caught by the except clause of
\* the test, which returns False
LanguageDetectionRaises ==
    /\ m_pc = "detection"
    /\ ~Creatable(LanguageDetectionFields, m_detection_kwargs)
    /\ m_error' = Str("TypeError")
    /\ m_returned' = FALSE
    /\ m_pc' = "returned"
    /\ UNCHANGED <<m_detection_kwargs, m_message_kwargs, m_detection, m_message>>
    /\ UNCHANGED <<pipeline_vars, transform_vars, country_vars, score_vars,
                   agents_vars>>

\* message = ProcessCSVMessage(...); return True
CreateProcessCSVMessage ==
    /\ m_pc = "message"
    /\ Creatable(ProcessCSVMessageFields, m_message_kwargs)
    /\ m_message' = [fields |-> m_message_kwargs]
    /\ m_returned' = TRUE
    /\ m_pc' = "returned"
    /\ UNCHANGED <<m_detection_kwargs, m_message_kwargs, m_detection, m_error>>
    /\ UNCHANGED <<pipeline_vars, transform_vars, country_vars, score_vars,
                   agents_vars>>

\* a required field is missing: pydantic's ValidationError, caught by the
\* except clause of the test, which returns False
ProcessCSVMessageRaises ==
    /\ m_pc = "message"
    /\ ~Creatable(ProcessCSVMessageFields, m_message_kwargs)
    /\ m_error' = Str("ValidationError")
    /\ m_returned' = FALSE
    /\ m_pc' = "returned"
    /\ UNCHANGED <<m_detection_kwargs, m_message_kwargs, m_detection, m_message>>
    /\ UNCHANGED <<pipeline_vars, transform_vars, country_vars, score_vars,
                   agents_vars>>

ModelsNext ==
    \/ CreateLanguageDetection
    \/ LanguageDetectionRaises
    \/ CreateProcessCSVMessage
    \/ ProcessCSVMessageRaises

ModelsSpec == ModelsInit /\ [][ModelsNext]_vars

(* ------- SalesDataHarmonizer.process_csv and the agents' handlers ------ *)
\* the calls of process_csv made on one harmonizer
MaxFiles == 2
\* the columns of the files handed to the harmonizer
AgentColumns == <<"c1", "c2">>
\* SchemaMappingAgent.target_schema, in its key order
agent_target_schema ==
    <<"vehicle_make", "vehicle_model", "price", "fuel_type", "year",
      "dealer_name", "country", "customer_name", "customer_email",
      "customer_phone", "lead_source">>
\* the answers of the classifier on this path: a failed call, an accepted
\* field, a field at the threshold, a second accepted field
AgentAnswers ==
    {a \in ClassifierAnswers :
        \/ a.kind = "backend_error"
        \/ /\ a.kind = "json" /\ a.reasoning = Str("semantic match")
           /\ \/ a.target_field = "customer_name" /\ a.confidence = Num(90)
              \/ a.target_field = "price" /\ a.confidence \in {Num(60), Num(90)}}

\* the messages of the runtime; `file` is the call of process_csv a message
\* goes back to
LanguageDetectionMessage(file, csv_headers) ==
    [kind |-> "LanguageDetectionMessage", file |-> file,
     csv_headers |-> csv_headers, mappings |-> <<>>, missing_fields |-> <<>>]
SchemaMappingMessage(file, ms, missing) ==
    [kind |-> "SchemaMappingMessage", file |-> file,
     csv_headers |-> <<>>, mappings |-> ms, missing_fields |-> missing]

RECURSIVE MapColumns(_, _)
\* for source_column in message.csv_headers:
\*     mappings.append(await self._map_column_to_schema(...))
MapColumns(columns, answers) ==
    IF columns = <<>> THEN <<>>
    ELSE <<_map_column_to_schema(Head(columns), Head(answers))>>
         \o MapColumns(Tail(columns), Tail(answers))

\* [field for field in self.target_schema.keys() if field not in mapped_fields]
AgentMissingFields(ms) == FieldsNotIn(agent_target_schema, TargetFields(ms))

\* the entries of current_mappings with `source_col in row`
InRow(cms, columns) ==
    SelectSeq(cms, LAMBDA m : m.source_column \in SeqToSet(columns))

AgentsInit ==
    /\ PipelineOff
    /\ TransformOff
    /\ CountryOff
    /\ ScoreOff
    /\ ModelsOff
    /\ a_pc = "start"
    /\ a_file = 1
    /\ a_in_flight = {}
    /\ a_current_mappings = <<>>
    /\ a_missing_fields = <<>>
    /\ a_mappings_file = 0
    /\ a_validation_results = <<>>
    /\ a_enhanced_data = <<>>
    /\ a_returned = None

\* await self.runtime.send_message(message, self.language_agent): the
\* language agent's handle_csv_processing reads the file and publishes its
\* LanguageDetectionMessage; process_csv goes on to its two sleeps
SendMessage ==
    /\ a_pc = "start"
    /\ a_in_flight' =
          a_in_flight \cup {LanguageDetectionMessage(a_file, AgentColumns)}
    /\ a_pc' = "sleeping"
    /\ UNCHANGED <<a_file, a_current_mappings, a_missing_fields, a_mappings_file,
                   a_validation_results, a_enhanced_data, a_returned>>
    /\ UNCHANGED <<pipeline_vars, transform_vars, country_vars, score_vars,
                   models_vars>>

\* SchemaMappingAgent.handle_language_detection: one decision per column,
\* rejected ones included, published as a SchemaMappingMessage
HandleLanguageDetection ==
    /\ \E msg \in a_in_flight :
          /\ msg.kind = "LanguageDetectionMessage"
          /\ \E answers \in [DOMAIN msg.csv_headers -> AgentAnswers] :
                LET ms == MapColumns(msg.csv_headers, answers)
                IN  a_in_flight' =
                       (a_in_flight \ {msg})
                       \cup {SchemaMappingMessage(msg.file, ms, AgentMissingFields(ms))}
    /\ UNCHANGED <<a_pc, a_file, a_current_mappings, a_missing_fields,
                   a_mappings_file, a_validation_results, a_enhanced_data,
                   a_returned>>
    /\ UNCHANGED <<pipeline_vars, transform_vars, country_vars, score_vars,
                   models_vars>>

\* DataValidationAgent.handle_schema_mapping stores every mapping of the
\* message and its missing fields
HandleSchemaMapping ==
    /\ \E msg \in a_in_flight :
          /\ msg.kind = "SchemaMappingMessage"
          /\ a_current_mappings' = msg.mappings
          /\ a_missing_fields' = msg.missing_fields
          /\ a_mappings_file' = msg.file
          /\ a_in_flight' = a_in_flight \ {msg}
    /\ UNCHANGED <<a_pc, a_file, a_validation_results, a_enhanced_data, a_returned>>
    /\ UNCHANGED <<pipeline_vars, transform_vars, country_vars, score_vars,
                   models_vars>>

\* the sleeps are over: validate_and_enhance_data goes through the MaxRows
\* rows of the file with the mappings the agent holds at that moment;
\* process_csv, called without an output path, returns the formatted result
AgentValidate ==
    /\ a_pc = "sleeping"
    /\ a_mappings_file # 0
    /\ LET cms == InRow(a_current_mappings, AgentColumns)
           results == OutcomesOfRows(cms, a_missing_fields,
                                     Len(AgentColumns), MaxRows)
           rows == [i \in 1..MaxRows |-> EnhancedRow(cms, a_missing_fields)]
       IN  /\ a_validation_results' = results
           /\ a_enhanced_data' = rows
           /\ a_returned' =
                 _format_results(
                    FinalResultMessage(rows,
                                       ProcessingSummary(MaxRows, a_current_mappings,
                                                         a_missing_fields, results),
                                       TRUE))
    /\ a_pc' = "done"
    /\ UNCHANGED <<a_file, a_in_flight, a_current_mappings, a_missing_fields,
                   a_mappings_file>>
    /\ UNCHANGED <<pipeline_vars, transform_vars, country_vars, score_vars,
                   models_vars>>

\* the sleeps are over and no handler has set current_mappings: the
\* AttributeError is caught by validate_and_enhance_data, whose failed
\* FinalResultMessage process_csv formats and returns
AgentValidationFails ==
    /\ a_pc = "sleeping"
    /\ a_mappings_file = 0
    /\ a_validation_results' = <<>>
    /\ a_enhanced_data' = <<>>
    /\ a_returned' =
          _format_results(
             FinalResultMessage(<<>>, [error |-> ErrorText("validation")], FALSE))
    /\ a_pc' = "done"
    /\ UNCHANGED <<a_file, a_in_flight, a_current_mappings, a_missing_fields,
                   a_mappings_file>>
    /\ UNCHANGED <<pipeline_vars, transform_vars, country_vars, score_vars,
                   models_vars>>

\* the next call of process_csv on the same harmonizer
NextFile ==
    /\ a_pc = "done"
    /\ a_file < MaxFiles
    /\ a_file' = a_file + 1
    /\ a_validation_results' = <<>>
    /\ a_enhanced_data' = <<>>
    /\ a_returned' = None
    /\ a_pc' = "start"
    /\ UNCHANGED <<a_in_flight, a_current_mappings, a_missing_fields,
                   a_mappings_file>>
    /\ UNCHANGED <<pipeline_vars, transform_vars, country_vars, score_vars,
                   models_vars>>

AgentsNext ==
    \/ SendMessage
    \/ HandleLanguageDetection
    \/ HandleSchemaMapping
    \/ AgentValidate
    \/ AgentValidationFails
    \/ NextFile

AgentsSpec == AgentsInit /\ [][AgentsNext]_vars

(* ============================ properties ============================== *)
\* conflict resolution is over
Resolved == pc \in {"resolved", "read", "assembled", "done"}
\* the validation agent holds the mappings and the missing fields
Handed == pc \in {"read", "assembled", "done"}

Decisions == SeqToSet(resolved_mappings)
\* the decisions of the resolved list for one source column
DecisionsOf(col) == {d \in Decisions : d.source_column = col}
\* the tentatively mapped columns (indices) that target one field
Group(f) == {i \in DOMAIN mappings :
                mappings[i].status = "mapped" /\ mappings[i].target_field = f}
\* highest confidence of the group, first in input order on a tie
WinnerOf(f) ==
    CHOOSE w \in Group(f) :
        \A i \in Group(f) :
            \/ mappings[w].mapping_confidence > mappings[i].mapping_confidence
            \/ mappings[w].mapping_confidence = mappings[i].mapping_confidence /\ w <= i

\* C1: after conflict resolution no two decisions with status "mapped" have
\* the same target_field.
C1_Injective ==
    Resolved =>
        \A i, j \in DOMAIN resolved_mappings :
            (/\ i # j
             /\ resolved_mappings[i].status = "mapped"
             /\ resolved_mappings[j].status = "mapped")
            => resolved_mappings[i].target_field # resolved_mappings[j].target_field

\* two columns were tentatively mapped to one field and resolution has run
C1_Witness ==
    /\ pc = "resolved"
    /\ \E f \in TargetChoices : Cardinality(Group(f)) >= 2

\* C2: in every group of tentatively mapped columns with one target field,
\* the column with the highest confidence (the first one on a tie) is the
\* only one left "mapped"; every other column of the group is "rejected" with
\* a rejection_reason that names the winner's source column.
C2_WinnerTakesField ==
    Resolved =>
        \A f \in TargetChoices :
            Group(f) # {} =>
                LET w == WinnerOf(f)
                IN  \A i \in Group(f) :
                        \A d \in DecisionsOf(headers[i]) :
                            IF i = w
                            THEN d = mappings[w]
                            ELSE /\ d.status = "rejected"
                                 /\ NamesColumn(d.rejection_reason, headers[w])

\* three columns compete for one field, the first with the lowest confidence
\* and the other two tied
C2_Witness ==
    /\ pc = "resolved"
    /\ Len(mappings) >= 3
    /\ \E f \in TargetChoices :
          /\ Group(f) = {1, 2, 3}
          /\ mappings[1].mapping_confidence < mappings[2].mapping_confidence
          /\ mappings[2].mapping_confidence = mappings[3].mapping_confidence

\* C3: the resolved list has exactly one decision per input source column.
C3_OneDecisionPerColumn ==
    Resolved =>
        /\ Len(resolved_mappings) = Len(headers)
        /\ \A h \in DOMAIN headers :
              Cardinality({i \in DOMAIN resolved_mappings :
                              resolved_mappings[i].source_column = headers[h]}) = 1

\* a threshold rejection, a winner and a loser in one run
C3_Witness ==
    /\ pc = "resolved"
    /\ \E i \in DOMAIN mappings : mappings[i].status = "rejected"
    /\ \E f \in TargetChoices : Cardinality(Group(f)) >= 2

\* C4: the i-th decision of the resolved list is the decision for the i-th
\* input source column.
C4_OrderPreserving ==
    Resolved =>
        \A i \in DOMAIN resolved_mappings :
            i \in DOMAIN headers /\ resolved_mappings[i].source_column = headers[i]

\* C5: in every decision of the resolved list rejection_reason is a non-empty
\* text exactly when status is "rejected", and is None when status is "mapped".
C5_ReasonIffRejected ==
    Resolved =>
        \A d \in Decisions :
            /\ d.status = "rejected" <=> NonEmptyStr(d.rejection_reason)
            /\ d.status = "mapped" => d.rejection_reason = None

\* the number the classifier reports, for an answer that carries one
ReportsNumber(ans) == ans.kind = "json" /\ ans.confidence.type = "number"

\* C6, the step that decides a column: a column is tentatively mapped only
\* with a confidence above the threshold, and a reported confidence equal to
\* or below the threshold gives a rejected decision with target "unmapped".
C6_Step ==
    pc = "classified" =>
        LET m == mappings'[Len(mappings')]
        IN  /\ m.status = "mapped" => m.mapping_confidence > AcceptThreshold
            /\ (ReportsNumber(ai_answer) /\ ai_answer.confidence.val <= AcceptThreshold)
               => (m.status = "rejected" /\ m.target_field = "unmapped")

\* C6, after resolution: a column rejected by the threshold holds no target
\* field, is named in no other column's rejection_reason and keeps its decision.
C6_NotInResolution ==
    Resolved =>
        \A i \in DOMAIN mappings :
            mappings[i].status = "rejected" =>
                /\ \A f \in DOMAIN target_field_map :
                       target_field_map[f].source_column # headers[i]
                /\ \A d \in Decisions :
                       d.source_column # headers[i]
                       => ~NamesColumn(d.rejection_reason, headers[i])
                /\ DecisionsOf(headers[i]) = {mappings[i]}

\* C6: a column is tentatively mapped only if its confidence strictly exceeds
\* the acceptance threshold; at or below it the column is rejected at once
\* with target_field "unmapped" and takes no part in conflict resolution.
C6_Threshold == [](C6_NotInResolution) /\ [][C6_Step]_vars

\* a column at the threshold was rejected while two others competed
C6_Witness ==
    /\ pc = "resolved"
    /\ \E i \in DOMAIN mappings :
          /\ mappings[i].status = "rejected"
          /\ mappings[i].mapping_confidence = AcceptThreshold
    /\ \E f \in TargetChoices : Cardinality(Group(f)) >= 2

\* the classifier gave no usable answer for the column
IsFailure(ans) ==
    \/ ans.kind \in {"backend_error", "bad_json", "missing_keys"}
    \/ /\ ans.kind = "json"
       /\ \/ ans.target_field \notin SeqToSet(valid_fields)
          \/ ans.confidence.type = "text"

\* C7, the step: a failed classification gives the column a rejected decision
\* with target "unmapped" and the mapping loop goes on.
C7_Step ==
    (pc = "classified" /\ IsFailure(ai_answer)) =>
        /\ pc' = "map"
        /\ Len(mappings') = Len(mappings) + 1
        /\ LET m == mappings'[Len(mappings')]
           IN  /\ m.source_column = headers[Len(mappings')]
               /\ m.status = "rejected"
               /\ m.target_field = "unmapped"

\* C7, the loop: while a column is left, the classifier is called for it
C7_LoopGoesOn ==
    (pc = "map" /\ Len(mappings) < Len(headers)) => ENABLED ClassifierCall

\* C7: a failure of the classifier for one column gives that column a
\* rejected decision with target_field "unmapped", leaves the mapping step
\* running, and the remaining columns are still classified.
C7_FailureIsNoAnswer == [](C7_LoopGoesOn) /\ [][C7_Step]_vars

\* a column failed with an exception, one without, and a later one was mapped
C7_Witness ==
    /\ pc = "resolved"
    /\ Len(mappings) >= 3
    /\ mappings[1].rejection_reason = FStr(<<"AI mapping error: ", "UnboundLocalError">>)
    /\ mappings[2].rejection_reason = Str("AI mapping failed")
    /\ mappings[3].status = "mapped"

C9_MissingFields ==
    Handed =>
        /\ SeqToSet(missing_fields) =
              {f \in SeqToSet(target_schema) :
                  ~\E d \in Decisions : d.status = "mapped" /\ d.target_field = f}
        /\ \A r \in DOMAIN enhanced_data :
              \A f \in SeqToSet(missing_fields) :
                  f \in SeqToSet(enhanced_data[r]) => f = "country"

\* rows were enhanced with customer_name mapped, country enriched and
\* sale_date missing
C9_Witness ==
    /\ pc = "done"
    /\ Len(enhanced_data) >= 1
    /\ \E d \in Decisions : d.status = "mapped" /\ d.target_field = "customer_name"
    /\ "sale_date" \in SeqToSet(missing_fields)
    /\ "country" \in SeqToSet(missing_fields)
    /\ "country" \in SeqToSet(enhanced_data[1])

\* position of a field in the target schema
SchemaIndex(f) == CHOOSE k \in DOMAIN target_schema : target_schema[k] = f

\* C10: every enhanced row has only keys of the pipeline's target schema, in
\* target-schema field order.
C10_RowsInTargetSchema ==
    \A r \in DOMAIN enhanced_data :
        LET keys == enhanced_data[r]
        IN  /\ \A k \in DOMAIN keys : keys[k] \in SeqToSet(target_schema)
            /\ \A k, l \in DOMAIN keys :
                   k < l => SchemaIndex(keys[k]) < SchemaIndex(keys[l])

(* ---------------------- properties of the transforms ------------------- *)
\* _validate_and_transform has returned for this transformation
Applied(transformation) == t_pc = "done" /\ t_transformation = transformation

\* the text without its sign
Unsigned(s) == IF s # <<>> /\ Head(s) \in {"+", "-"} THEN Tail(s) ELSE s
Negative(s) == s # <<>> /\ Head(s) = "-"
\* a base-10 integer: an optional sign and one digit or more
IntegerShape(s) == Unsigned(s) # <<>> /\ AllDigits(Unsigned(s))
IntegerOf(s) ==
    IF Negative(s) THEN 0 - TextToNat(Unsigned(s)) ELSE TextToNat(Unsigned(s))
\* a decimal number: an optional sign, digits with at most one '.', and at
\* least one digit
DecimalShape(s) ==
    LET body == Unsigned(s)
        dots == {k \in DOMAIN body : body[k] = "."}
    IN  /\ Cardinality(dots) <= 1
        /\ \A k \in DOMAIN body \ dots : IsDigit(body[k])
        /\ DOMAIN body \ dots # {}
\* the digits before the '.', as a number
WholePartOf(s) ==
    LET body == Unsigned(s)
        whole == SubSeq(body, 1, IF FirstIndex(body, ".") = 0 THEN Len(body)
                                 ELSE FirstIndex(body, ".") - 1)
    IN  IF Negative(s) THEN 0 - TextToNat(whole) ELSE TextToNat(whole)

NotSeparator(c) == c \notin {",", " "}
\* the value without its commas and blanks
WithoutSeparators(value) == SelectSeq(value, NotSeparator)
\* the value with every comma turned into a '.'
CommasAsDots(value) ==
    [k \in DOMAIN value |-> IF value[k] = "," THEN "." ELSE value[k]]

\* C11 as claimed: convert_to_integer removes every ',' and blank, parses the
\* rest as a base-10 integer, is "fixed" exactly when the text changed, and
\* gives 0, "fixed", "Set to 0 (invalid number)" for every other value.
C11_IntegerAsClaimed ==
    Applied("convert_to_integer") =>
        LET rest == WithoutSeparators(t_value)
        IN  IF IntegerShape(rest)
            THEN /\ t_result.final_value = IntToText(IntegerOf(rest))
                 /\ t_result.status =
                       (IF t_value # t_result.final_value THEN "fixed" ELSE "valid")
            ELSE /\ t_result.final_value = <<"0">>
                 /\ t_result.status = "fixed"
                 /\ t_result.action_taken = "Set to 0 (invalid number)"

\* C11 amended: convert_to_integer removes every ',' and blank, parses the
\* rest as a decimal number and truncates it to an integer ("1,200" gives
\* 1200, "1.9" gives 1); the status is "fixed" exactly when the text of the
\* value differs from the text of the result; every value whose rest is no
\* number gives 0, "fixed", "Set to 0 (invalid number)".
C11_IntegerViaFloat ==
    Applied("convert_to_integer") =>
        LET rest == WithoutSeparators(t_value)
        IN  /\ IF DecimalShape(rest)
               THEN /\ t_result.final_value = IntToText(WholePartOf(rest))
                    /\ t_result.status =
                          (IF t_value # t_result.final_value THEN "fixed" ELSE "valid")
               ELSE /\ t_result.final_value = <<"0">>
                    /\ t_result.status = "fixed"
                    /\ t_result.action_taken = "Set to 0 (invalid number)"
            /\ t_value = Text_1_200 =>
                  t_result.final_value = <<"1", "2", "0", "0">> /\ t_result.status = "fixed"
            /\ t_value = Text_42 =>
                  t_result.final_value = <<"4", "2">> /\ t_result.status = "valid"

\* a value with a comma, a blank and decimals was truncated
C11_Witness ==
    /\ Applied("convert_to_integer")
    /\ t_value = <<"1", " ", ".", "2">>
    /\ t_result.final_value = <<"1">>
    /\ t_result.status = "fixed"

\* C12: convert_to_decimal turns every ',' into '.' and parses the result as
\* a decimal number ("19,99" gives 19.99); every value that does not parse,
\* among them every value with both ',' and '.', gives 0.0 with status "fixed".
C12_DecimalComma ==
    Applied("convert_to_decimal") =>
        LET rest == CommasAsDots(t_value)
        IN  /\ IF DecimalShape(Strip(rest))
               THEN t_result.final_value = FloatToText(ParseFloat(rest))
               ELSE /\ t_result.final_value = <<"0", ".", "0">>
                    /\ t_result.status = "fixed"
            /\ t_value = Text_19_99 =>
                  t_result.final_value = <<"1", "9", ".", "9", "9">>
            /\ ("," \in SeqToSet(t_value) /\ "." \in SeqToSet(t_value)) =>
                  (t_result.final_value = <<"0", ".", "0">> /\ t_result.status = "fixed")

\* "1,234.56" does not parse
C12_Witness ==
    /\ Applied("convert_to_decimal")
    /\ t_value = Text_1_234_56
    /\ t_result.final_value = <<"0", ".", "0">>
    /\ t_result.status = "fixed"

\* the order of the patterns as the claim gives it
ClaimedPatterns ==
    <<[sep |-> "-", fields |-> <<"Y", "m", "d">>],
      [sep |-> "/", fields |-> <<"d", "m", "Y">>],
      [sep |-> "/", fields |-> <<"m", "d", "Y">>],
      [sep |-> ".", fields |-> <<"d", "m", "Y">>],
      [sep |-> "-", fields |-> <<"d", "m", "Y">>]>>
DayFirst == ClaimedPatterns[2]
MonthFirst == ClaimedPatterns[3]
Parses(text, pattern) == Strptime(Strip(text), pattern).ok
IsoOf(text, pattern) == IsoText(Strptime(Strip(text), pattern))

\* C13: parse_date returns the ISO text of the first pattern, in the order
\* Y-M-D, D/M/Y, M/D/Y, D.M.Y, D-M-Y, that parses the value; a slash date that
\* is valid day-first is read day-first, and month-first only otherwise.
C13_FirstPatternWins ==
    Applied("parse_date") =>
        /\ \A k \in DOMAIN ClaimedPatterns :
              (/\ Parses(t_value, ClaimedPatterns[k])
               /\ \A j \in 1..(k - 1) : ~Parses(t_value, ClaimedPatterns[j]))
              => t_result.final_value = IsoOf(t_value, ClaimedPatterns[k])
        /\ Parses(t_value, DayFirst) =>
              t_result.final_value = IsoOf(t_value, DayFirst)
        /\ (/\ Parses(t_value, MonthFirst)
            /\ t_result.final_value = IsoOf(t_value, MonthFirst)
            /\ IsoOf(t_value, MonthFirst) # IsoOf(t_value, DayFirst))
           => ~Parses(t_value, DayFirst)

\* "02/1/2024" is a date both ways and was read as the 2nd of January
C13_Witness ==
    /\ Applied("parse_date")
    /\ t_value = <<"0", "2", "/", "1", "/", "2", "0", "2", "4">>
    /\ Parses(t_value, DayFirst) /\ Parses(t_value, MonthFirst)
    /\ t_result.final_value = <<"2", "0", "2", "4", "-", "0", "1", "-", "0", "2">>

\* C14: a value that matches none of the date patterns passes through
\* unchanged with status "valid", blanks around it included.
C14_UnparsedUnchanged ==
    (/\ Applied("parse_date")
     /\ \A k \in DOMAIN DatePatterns : ~Parses(t_value, DatePatterns[k]))
    => (t_result.final_value = t_value /\ t_result.status = "valid")

(* ------------------ properties of the country inference ---------------- *)
Inferred == c_pc = "done"
\* the countries whose list holds a token the cell contains, as places of the table
CountriesIn(cell) ==
    LET name_lower == Lower(cell.text)
    IN  {k \in DOMAIN name_country_patterns :
            /\ cell.is_str
            /\ \E p \in DOMAIN name_country_patterns[k].patterns :
                  Contains(name_lower, name_country_patterns[k].patterns[p])}
HasToken(cell) == CountriesIn(cell) # {}
\* the first country, in configured order, with a token in the cell
FirstCountryIn(cell) ==
    LET found == CountriesIn(cell)
    IN  CHOOSE k \in found : \A j \in found : k <= j
\* the first value of the row, in column order, with a token
FirstWithToken(row) ==
    LET with == {i \in DOMAIN row : HasToken(row[i])}
    IN  CHOOSE i \in with : \A j \in with : i <= j
Spain == <<"S", "p", "a", "i", "n">>
Italy == <<"I", "t", "a", "l", "y">>

\* C15: when some string value of the row, lower-cased, contains a name
\* token, the country is that of the first such value in column order and,
\* for that value, of the first country in configured order; the stored
\* language detections play no part.  "María García" gives "Spain", and so
\* does "Antonio", a token of both spain and italy.
C15_FirstNameMatch ==
    Inferred =>
        /\ (\E i \in DOMAIN c_row : HasToken(c_row[i])) =>
              c_country =
                 Title(name_country_patterns[FirstCountryIn(c_row[FirstWithToken(c_row)])].country)
        /\ c_row[1] = Cell_Maria_Garcia => c_country = Spain
        /\ c_row[1] = Cell_Antonio => c_country = Spain
        /\ c_row[1] = Cell_LUIGI => c_country = Italy

\* "Antonio" comes after a value with no token, an English detection is
\* stored, and the country is Spain
C15_Witness ==
    /\ Inferred
    /\ c_row = <<Cell_x, Cell_Antonio>>
    /\ language_detections # <<>>
    /\ language_detections[1].detected_language = "en"
    /\ c_country = Spain

\* C16: in the pipeline of process_csv, for a row without a name token the
\* country is the one mapped to the detected language of some column when
\* such a language is in the table, and "Unknown" only when none is.
C16_LanguageOfSomeColumn ==
    (Inferred /\ \A i \in DOMAIN c_row : ~HasToken(c_row[i])) =>
        LET known == {k \in DOMAIN detections :
                         detections[k].detected_language \in LanguageKeys}
        IN  /\ known # {} =>
                  \E k \in known :
                      c_country = CountryOfLanguage(detections[k].detected_language)
            /\ c_country = Unknown => known = {}

(* --------------------- properties of the quality score ----------------- *)
Scored == q_pc = "done"
\* the outcomes with status valid, fixed or enriched
GoodOutcomes(results) ==
    {k \in DOMAIN results : results[k].status \in {"valid", "fixed", "enriched"}}

\* C18: the quality score is the number of outcomes with status valid, fixed
\* or enriched over the number of outcomes, 0.0 for no outcome at all, and
\* it lies between 0 and 1.
C18_QualityScore ==
    Scored =>
        /\ q_results = <<>> => (q_score.num = 0 /\ q_score.den = 1)
        /\ q_results # <<>> =>
              /\ q_score.num = Cardinality(GoodOutcomes(q_results))
              /\ q_score.den = Len(q_results)
        /\ q_score.den > 0
        /\ 0 <= q_score.num /\ q_score.num <= q_score.den

\* three outcomes, one of them an error, two of them fixed or enriched
C18_Witness ==
    /\ Scored
    /\ Len(q_results) = 3
    /\ q_results[1].status = "fixed"
    /\ q_results[2].status = "error"
    /\ q_results[3].status = "enriched"
    /\ q_score = Quotient(2, 3)

(* ------------------- properties of the validation run ------------------ *)
\* the decisions with status "mapped"
MappedDecisions == {d \in Decisions : d.status = "mapped"}
CountryMissing == "country" \in SeqToSet(missing_fields)
\* outcomes of one row
PerRow == Cardinality(MappedDecisions) + (IF CountryMissing THEN 1 ELSE 0)
\* the outcomes of row r, in the order they were appended
OutcomesOfRow(r) == SubSeq(validation_results, (r - 1) * PerRow + 1, r * PerRow)
IsCountryOutcome(o) ==
    /\ o.field = "country"
    /\ o.status = "enriched"
    /\ o.original_value = <<>>
    /\ o.action_taken = "Inferred from name patterns and language"

\* C17: every validated row has one outcome per mapped source column and,
\* exactly when country is a missing field, one more outcome for country with
\* status enriched, original value "" and the action "Inferred from name
\* patterns and language": outcomes = rows x (mapped columns + 1 if country
\* is missing).
C17_OutcomesPerRow ==
    Handed =>
        /\ Len(validation_results) = Len(enhanced_data) * PerRow
        /\ \A r \in DOMAIN enhanced_data :
              LET outcomes == OutcomesOfRow(r)
                  enriched == {k \in DOMAIN outcomes : outcomes[k].status = "enriched"}
              IN  /\ \A d \in MappedDecisions :
                        Cardinality({k \in DOMAIN outcomes \ enriched :
                                        outcomes[k].field = d.target_field}) = 1
                  /\ enriched = (IF CountryMissing THEN {PerRow} ELSE {})
                  /\ \A k \in enriched : IsCountryOutcome(outcomes[k])

\* a file with rows, two mapped columns and no country column was validated
C17_Witness ==
    /\ pc = "done"
    /\ Len(enhanced_data) >= 2
    /\ Cardinality(MappedDecisions) = 2
    /\ CountryMissing
    /\ Len(validation_results) = 3 * Len(enhanced_data)
    /\ IsCountryOutcome(validation_results[3])

(* ----------------------- properties of the result ---------------------- *)
\* a report flagged as failed, with an error message and without rows
IsFailureReport(r) ==
    /\ DOMAIN r = {"success", "error"}
    /\ ~r.success
    /\ NonEmptyStr(r.error)
\* the run is over
Over == pc \in {"raised", "failed", "done"}
\* a step of the pipeline failed
PipelineFailed ==
    \/ file_state \in {"missing", "unreadable"}
    \/ "success" \in DOMAIN final_result /\ ~final_result.success

\* C19: a run in which the file is missing or unreadable, or a step raised,
\* ends by returning a report with success=false, an error message and no
\* rows; nothing is raised.
C19_FailureIsReturned == (Over /\ PipelineFailed) => IsFailureReport(returned)

\* C20: whenever something is stored at the output path, every row has been
\* validated, the final result has been assembled with success=true, and the
\* stored rows are the rows of that result; a failed run has stored nothing.
C20_WriteAfterAssembly ==
    /\ output_file # None =>
          /\ pc = "done"
          /\ Truthy(output_path)
          /\ "success" \in DOMAIN final_result /\ final_result.success
          /\ Len(enhanced_data) = nrows
          /\ Len(validation_results) = nrows * PerRow
          /\ output_file.rows = final_result.mapped_data
          /\ output_file.rows = enhanced_data
    /\ PipelineFailed => output_file = None
    /\ pc # "done" => output_file = None

\* a run with an output path wrote its rows and returned success
C20_Witness ==
    /\ pc = "done"
    /\ output_file # None
    /\ Len(output_file.rows) = nrows /\ nrows > 0
    /\ returned.success

(* ---------------------- classifier calls per run ----------------------- *)
\* the columns the mapping loop has asked the classifier about
ColumnsAsked == Len(mappings) + (IF pc = "classified" THEN 1 ELSE 0)
\* validate_and_enhance_data has gone through the rows
RowsTransformed == pc \in {"assembled", "done"}

\* C21: in one run of process_csv the classifier is called once per source
\* column: the calls made so far are the columns asked so far, every call is
\* made by the mapping loop before any row is transformed, and from the
\* resolution on the count is the number of columns, whatever the number of
\* rows.
C21_OncePerColumn ==
    /\ [](/\ classifier_calls = ColumnsAsked
          /\ Resolved => classifier_calls = Len(headers)
          /\ RowsTransformed => classifier_calls = Len(headers))
    /\ [][classifier_calls' # classifier_calls =>
             /\ classifier_calls' = classifier_calls + 1
             /\ pc = "map" /\ ~RowsTransformed
             /\ validation_results = <<>> /\ enhanced_data = <<>>]_vars

\* a run over several columns and rows is over: one call per column
C21_Witness ==
    /\ pc = "done"
    /\ returned.success
    /\ Len(headers) > 1
    /\ nrows = MaxRows
    /\ Len(validation_results) > 0
    /\ classifier_calls = Len(headers)

(* ------------------ the rejected fields of the summary ----------------- *)
\* summary.get('fields_rejected', 0): the number the command line shows
FieldsRejected(summary) ==
    IF "fields_rejected" \in DOMAIN summary THEN summary.fields_rejected ELSE 0
\* the decisions with status "rejected" of the resolved mapping
RejectedDecisions == SelectSeqBy(resolved_mappings, "rejected")

\* C22: the number of rejected fields reported by the summary of a
\* successful run is the number of decisions with status "rejected" in the
\* resolved mapping.
C22_RejectedReported ==
    (pc = "done" /\ returned.success) =>
        FieldsRejected(returned.summary) = Len(RejectedDecisions)

(* -------------------- lexical score and classifier --------------------- *)
\* the column the mapping loop is at
ColumnAtLoop == headers[Len(mappings) + 1]
\* the confidence the classifier reports, 0 when it reports none
HasConfidence(ans) == ans.kind = "json" /\ ans.confidence.type # "text"
ReportedConfidence(ans) == IF HasConfidence(ans) THEN Clamp(ans.confidence.val) ELSE 0

C24_CreatedWithoutError ==
    (/\ m_pc = "returned"
     /\ m_detection_kwargs =
           {"column", "detected_language", "translated_text", "confidence"}
     /\ m_message_kwargs = {"file_path", "target_schema"}) =>
        /\ m_error = None
        /\ m_returned = TRUE
        /\ m_detection # None /\ m_message # None

(* ---------------- the agents' path: rejected columns ------------------- *)
\* the call of process_csv has returned a successful result
AgentSucceeded == a_pc = "done" /\ a_returned.success
\* the decisions the validation agent holds, by status
HeldWithStatus(st) == SelectSeqBy(a_current_mappings, st)

\* C25: on the path through handle_schema_mapping only mapped columns are
\* transformed: no outcome belongs to a rejected column (the outcomes of a
\* row are one per mapped column, plus the country when it is missing) and
\* no enhanced row has the key "unmapped".
C25_OnlyMappedTransformed ==
    AgentSucceeded =>
        /\ \A i \in DOMAIN a_validation_results :
              a_validation_results[i].field # "unmapped"
        /\ \A i \in DOMAIN a_enhanced_data :
              "unmapped" \notin SeqToSet(a_enhanced_data[i])
        /\ Len(a_validation_results) =
              MaxRows * (Len(HeldWithStatus("mapped"))
                         + (IF "country" \in SeqToSet(a_missing_fields)
                            THEN 1 ELSE 0))

(* ------------- the agents' path: when validation starts ---------------- *)
\* validate_and_enhance_data is entered in this step
ValidationStarts == a_pc = "sleeping" /\ a_pc' = "done"

\* C28: validate_and_enhance_data starts only when the handlers have
\* finished for this file, no message of this call being in flight, and the
\* validation agent holds the mappings of this call, not none and not
\* those of an earlier call.
C28_ValidationAfterHandlers ==
    [][ValidationStarts =>
          /\ \A msg \in a_in_flight : msg.file # a_file
          /\ a_mappings_file = a_file]_vars

(* ------------------ the quality score of a run ------------------------- *)
\* validate_and_enhance_data has answered with success
Validated ==
    /\ pc \in {"assembled", "done"}
    /\ final_result.success
\* the quality score of the summary
RunScore == final_result.processing_summary.quality_score

\* C26: every outcome of validate_and_enhance_data has status valid, fixed
\* or enriched, so the quality score of a successful run is 1.0 when there
\* is an outcome and 0.0 when there is none, never a value in between.
C26_ScoreIsZeroOrOne ==
    /\ \A i \in DOMAIN validation_results :
          validation_results[i].status \in {"valid", "fixed", "enriched"}
    /\ Validated =>
          /\ validation_results # <<>> =>
                (RunScore.num = RunScore.den /\ RunScore.den = Len(validation_results))
          /\ validation_results = <<>> => RunScore = Quotient(0, 1)
          /\ ~(0 < RunScore.num /\ RunScore.num < RunScore.den)
          /\ (pc = "done" => returned.summary.quality_score = RunScore)

\* a run with outcomes of all three kinds has the score 1.0
C26_Witness ==
    /\ pc = "done"
    /\ returned.success
    /\ \E i \in DOMAIN validation_results : validation_results[i].status = "valid"
    /\ \E i \in DOMAIN validation_results : validation_results[i].status = "fixed"
    /\ \E i \in DOMAIN validation_results : validation_results[i].status = "enriched"
    /\ returned.summary.quality_score.num = Len(validation_results)
    /\ returned.summary.quality_score.den = Len(validation_results)

(* ------------------- success and the written file ---------------------- *)
\* C27: when process_csv, called with an output path, returns success=true,
\* the harmonized rows are stored at that path: a failed save is not
\* reported as a success.
C27_SuccessMeansSaved ==
    (pc = "done" /\ Truthy(output_path) /\ returned.success) =>
        /\ output_file # None
        /\ output_file.rows = enhanced_data

(* ---------------------- the enriched fields ---------------------------- *)
\* the target fields that received an enriched value in some row
EnrichedFields ==
    {validation_results[i].field :
        i \in {k \in DOMAIN validation_results :
                  validation_results[k].status = "enriched"}}

\* C29: fields_enriched of the summary is the number of target fields that
\* received an enriched value in the enhanced rows; a missing field that was
\* not enriched does not count.
C29_EnrichedCount ==
    (pc = "done" /\ returned.success) =>
        /\ returned.summary.fields_enriched = Cardinality(EnrichedFields)
        /\ \A f \in EnrichedFields :
              \A i \in DOMAIN enhanced_data : f \in SeqToSet(enhanced_data[i])
====
